---- MODULE Spec2Model ----
(***************************************************************************)
(* State-translation and caching layer of the Moneta thermostat           *)
(* integration (custom_components/moneta_thermostat_evo).                  *)
(*                                                                         *)
(* The model follows MonetaApiClient (api.py): the cached snapshot, its    *)
(* expiration and the in-flight flag, the read path get_state() and the    *)
(* write operations that go through _set_request().  Every coroutine is    *)
(* cut at its single suspension point, the HTTP POST of _api_post(): the   *)
(* code before the await is one action, the code after it another.         *)
(* Time is counted in whole minutes.                                       *)
(*                                                                         *)
(* A second specification, EntitySpec, follows one climate entity          *)
(* (climate.py of both integrations) through its commands: the optimistic  *)
(* overrides, the state it writes, the call it makes into the client and   *)
(* the refresh that ends the command.                                      *)
(***************************************************************************)
EXTENDS Integers, Sequences, FiniteSets, TLC

\* ------------------------------------------------------------------ bounds
MaxTime == 6
MaxPollingConfig == 6

\* ------------------------------------------------------- program constants
MIN_POLLING_INTERVAL == 5

\* The zone the presence, holiday and party binary sensors read.
DEFAULT_ZONE_ID == "1"

\* None for the expiration timestamp (a datetime otherwise).
NoExpiration == -1

\* None for the cached snapshot (a ThermostatModel otherwise).
NoData == "None"

\* ThermostatModel.from_dict of an object that has none of the model's keys:
\* every field takes its default, the zone list is empty.
DefaultModel == "default_model"

\* Snapshots the vendor service can answer with: the winter unit has zones
\* 1, 2 and 3, the summer unit only 1 and 3.
ServerSnapshots == {"winter", "summer"}

Snapshots == ServerSnapshots \cup {DefaultModel}

ZoneIds == {"1", "2", "3"}

\* The coroutines of the event loop that are in the client at the same time: one
\* call and another that overlaps it.
Tasks == {1, 2}

Setpoint(type, temperature) == [type |-> type, temperature |-> temperature]

Zone(id, temperature, setpoints) ==
    [id |-> id, temperature |-> temperature, setpoints |-> setpoints]

\* A snapshot whose zone 1 has its present and absent setpoints at 0 (the value
\* Setpoint.from_dict gives a setpoint that came without a temperature) and
\* whose zone 2 has no setpoints.
ZeroSetpoints == "zero_setpoints"

\* The zones of a snapshot, in payload order.
ZonesOf(s) ==
    CASE s = "winter" ->
           << Zone("1", 19, <<Setpoint("present", 20), Setpoint("absent", 16)>>),
              Zone("2", 21, <<Setpoint("present", 21), Setpoint("absent", 16)>>),
              Zone("3", 20, <<Setpoint("present", 20)>>) >>
      [] s = "summer" ->
           << Zone("1", 26, <<Setpoint("present", 25), Setpoint("absent", 28)>>),
              Zone("3", 27, <<Setpoint("absent", 28)>>) >>
      [] s = ZeroSetpoints ->
           << Zone("1", 4, <<Setpoint("present", 0), Setpoint("absent", 0)>>),
              Zone("2", 5, << >>) >>
      [] OTHER -> << >>

\* Temperatures a caller may ask for; << >> is None.
TemperatureInputs == { << >>, <<20>> }

\* --------------------------------------------------------------- responses
\* What one POST can end in.  status: the transport raised aiohttp.ClientError,
\* or answered with a status other than 200, or with 200.  form: the shape of a
\* 200 body.  error, success: the "error" and "success" keys of the object the
\* body carries (the body itself, or element 0 of the list).  model: what
\* ThermostatModel.from_dict makes of that object.
Response(status, form, error, success, model) ==
    [status |-> status, form |-> form, error |-> error, success |-> success,
     model |-> model]

NoResponse == Response("none", "none", FALSE, "missing", DefaultModel)

TransportError == Response("client_error", "none", FALSE, "missing", DefaultModel)

HttpError == Response("non200", "none", FALSE, "missing", DefaultModel)

Body(form) == Response("ok200", form, FALSE, "missing", DefaultModel)

ObjectForms == {"list_of_object", "object"}

PlainForms == {"not_json", "null", "empty_list", "list_of_other"}

\* Answers to request_type full_bo.
FullResponses ==
    {TransportError, HttpError}
    \cup { Body(f) : f \in PlainForms }
    \cup { Response("ok200", f, FALSE, "missing", m) :
             f \in ObjectForms, m \in Snapshots \cup {"unparseable"} }
    \cup { Response("ok200", f, TRUE, "missing", DefaultModel) : f \in ObjectForms }

\* Answers to request_type post_bo_setpoint.
SetpointResponses ==
    {TransportError, HttpError}
    \cup { Body(f) : f \in PlainForms }
    \cup { Response("ok200", f, e, s, DefaultModel) :
             f \in ObjectForms, e \in BOOLEAN, s \in {"true", "false", "missing"} }

VARIABLES
    now,                  \* wall clock, minutes
    polling_interval,     \* MonetaApiClient._polling_interval
    cached_data,          \* MonetaApiClient._cached_data
    expiration,           \* MonetaApiClient._expiration
    pending,              \* MonetaApiClient._pending
    pc,                   \* where each task stands
    call_now,             \* get_state's local `now`
    ret,                  \* what get_state returned to the task
    fetched,              \* what became of the call's own fetch, if it made one
    ok,                   \* what a write operation returned to the task
    joined,               \* the task whose fetch was in flight when this call returned
    coordinator_data,     \* DataUpdateCoordinator.data
    last_update_success,  \* DataUpdateCoordinator.last_update_success
    write_acked,          \* a write returned True and get_state was not called since
    ttl_from,             \* start of the last successful fetch, if no write or
                          \* force refresh came after it
    zone_state,           \* the fields of the entity's zone the snapshots carry
    category,             \* ThermostatModel.category of the snapshots
    entity_zone_id,       \* MonetaClimateEntity._zone_id
    optimistic_hvac_mode, \* MonetaClimateEntity._optimistic_hvac_mode
    optimistic_target_temp,  \* MonetaClimateEntity._optimistic_target_temp
    optimistic_preset_mode,  \* MonetaClimateEntity._optimistic_preset_mode
    ha_state,             \* what async_write_ha_state wrote last
    command,              \* the client call the last command made, if it made one
    payload,              \* the payload that call built for _set_request
    now_ts,               \* int(time.time()) as set_party reads it, seconds
    calendars,            \* Zone.calendar of every zone of coordinator.data
    edit,                 \* MonetaScheduleDayText.async_set_value in progress
    display,              \* the state MonetaFirstZoneScheduleSensor wrote last
    server,               \* the schedule the server took for each zone since the
                          \* snapshot was fetched
    day_edits             \* async_set_value of two day entities, one per task

entity_vars == << zone_state, category, entity_zone_id, optimistic_hvac_mode,
                  optimistic_target_temp, optimistic_preset_mode, ha_state,
                  command, payload >>

schedule_vars == << now_ts, calendars, edit, display, server, day_edits >>

client_vars == << now, polling_interval, cached_data, expiration, pending, pc,
                  call_now, ret, fetched, ok, joined, coordinator_data,
                  last_update_success, write_acked, ttl_from >>

vars == << now, polling_interval, cached_data, expiration, pending, pc,
           call_now, ret, fetched, ok, joined, coordinator_data,
           last_update_success, write_acked, ttl_from, zone_state,
           category, entity_zone_id, optimistic_hvac_mode, optimistic_target_temp,
           optimistic_preset_mode, ha_state, command, payload, now_ts,
           calendars, edit, display, server, day_edits >>


\* ------------------------------------------------------ MonetaApiClient
WriteOps ==
    {"set_off", "set_auto", "set_heat_cool", "set_party", "set_frost_protection",
     "set_holiday", "set_manual_temperature", "set_present_absent_temperature",
     "set_schedule_by_zone_id"}

\* Write operations whose only early return is the missing snapshot.
PlainWriteOps == WriteOps \ {"set_present_absent_temperature"}

IsList(form) == form \in {"empty_list", "list_of_object", "list_of_other"}

\* Python truthiness of a parsed body (`if data:`).
Truthy(form) == form \notin {"null", "empty_list"}

Raised == [kind |-> "raise", body |-> NoResponse]

ReturnedNone == [kind |-> "none", body |-> NoResponse]

Returned(r) == [kind |-> "data", body |-> r]

\* An _api_post without the error check on element 0.
ApiPostIgnoringErrorFlag(r) ==
    IF r.status = "client_error" THEN ReturnedNone
    ELSE IF r.status # "ok200" THEN ReturnedNone
    ELSE IF r.form = "not_json" THEN Raised
    ELSE IF r.form = "null" THEN ReturnedNone
    ELSE Returned(r)

\* _api_post: the POST, the status check, resp.json(content_type=None) and the
\* error check on element 0.  Only aiohttp.ClientError is caught: a body that
\* is not JSON makes resp.json raise a ValueError, a first element that is no
\* object makes data[0].get raise an AttributeError, and both leave _api_post.
_api_post(r) ==
    IF r.status = "client_error" THEN ReturnedNone
    ELSE IF r.status # "ok200" THEN ReturnedNone
    ELSE IF r.form = "not_json" THEN Raised
    ELSE IF r.form = "null" THEN ReturnedNone
    ELSE IF IsList(r.form) /\ r.form # "empty_list"
         THEN IF r.form = "list_of_other" THEN Raised
              ELSE IF r.error THEN ReturnedNone ELSE Returned(r)
    ELSE Returned(r)

\* _set_request after its await: [raised, value, invalidate].
SetResult(raised, value, invalidate) ==
    [raised |-> raised, value |-> value, invalidate |-> invalidate]

\* A _set_request that invalidates the cache before it looks at the result.
SetRequestInvalidatingFirst(r) ==
    LET result == _api_post(r) IN
    IF result.kind = "raise" THEN SetResult(TRUE, FALSE, FALSE)
    ELSE IF result.kind = "none" THEN SetResult(FALSE, FALSE, TRUE)
    ELSE IF /\ IsList(result.body.form) /\ result.body.form # "empty_list"
            /\ result.body.success # "true" /\ result.body.error
         THEN SetResult(FALSE, FALSE, TRUE)
    ELSE SetResult(FALSE, TRUE, TRUE)

_set_request(r) ==
    LET result == _api_post(r) IN
    IF result.kind = "raise" THEN SetResult(TRUE, FALSE, FALSE)
    ELSE IF result.kind = "none" THEN SetResult(FALSE, FALSE, FALSE)
    ELSE IF /\ IsList(result.body.form) /\ result.body.form # "empty_list"
            /\ result.body.success # "true" /\ result.body.error
         THEN SetResult(FALSE, FALSE, FALSE)
    ELSE SetResult(FALSE, TRUE, TRUE)

\* A guard that forgets the in-flight flag.
CacheHitIgnoringPending ==
    expiration # NoExpiration /\ now < expiration

\* A guard that still answers from the cache at the minute of expiration.
CacheHitInclusive ==
    pending \/ (expiration # NoExpiration /\ now <= expiration)

\* get_state's guard: answer from the cache.
CacheHit ==
    pending \/ (expiration # NoExpiration /\ now < expiration)

\* get_state's try block after the await: "stored" when the body was parsed
\* into a new snapshot, "kept" when nothing was stored; an exception raised by
\* _api_post or by the parse is caught by `except Exception` and keeps too.
GetStateOutcome(r) ==
    LET data == _api_post(r) IN
    IF data.kind = "raise" THEN "kept"
    ELSE IF data.kind = "none" THEN "kept"
    ELSE IF ~Truthy(data.body.form) THEN "kept"
    ELSE IF data.body.form \notin ObjectForms THEN "kept"
    ELSE IF data.body.model = "unparseable" THEN "kept"
    ELSE "stored"

\* A fetch that resets the cache when it stores nothing.
CachedAfterFetchClearing(outcome, r) ==
    IF outcome = "stored" THEN r.model ELSE NoData

\* The cached snapshot after a fetch: replaced as a whole, or left alone.
CachedAfterFetch(outcome, r) ==
    IF outcome = "stored" THEN r.model ELSE cached_data

\* An expiration counted from the moment the answer arrived.
FetchExpirationFromCompletion(t) == now + polling_interval

\* The expiration a successful fetch of task t sets: get_state's `now`, taken
\* before the await, plus the polling interval.
FetchExpiration(t) == call_now[t] + polling_interval

get_zone_by_id(s, zone_id) ==
    LET zs == ZonesOf(s) IN
    IF s = NoData THEN << >>
    ELSE IF \E i \in 1..Len(zs) : zs[i].id = zone_id
         THEN << zs[CHOOSE i \in 1..Len(zs) :
                      /\ zs[i].id = zone_id
                      /\ \A j \in 1..(i - 1) : zs[j].id # zone_id] >>
         ELSE << >>

\* << >> is None, <<x>> the temperature x.
get_setpoint_temperature(zone, setpoint_type) ==
    LET sps == zone.setpoints IN
    IF \E i \in 1..Len(sps) : sps[i].type = setpoint_type
    THEN << sps[CHOOSE i \in 1..Len(sps) :
                  /\ sps[i].type = setpoint_type
                  /\ \A j \in 1..(i - 1) : sps[j].type # setpoint_type].temperature >>
    ELSE << >>

\* A payload with every requested setpoint, changed or not.
RequestedSetpoints(zone, present_temperature, absent_temperature) ==
    (IF present_temperature = << >> THEN << >>
     ELSE << Setpoint("present", present_temperature[1]) >>)
    \o (IF absent_temperature = << >> THEN << >>
        ELSE << Setpoint("absent", absent_temperature[1]) >>)

\* The setpoints set_present_absent_temperature puts into its payload.
ChangedSetpoints(zone, present_temperature, absent_temperature) ==
    LET skip_present ==
            \/ present_temperature = << >>
            \/ get_setpoint_temperature(zone, "present") = present_temperature
        skip_absent ==
            \/ absent_temperature = << >>
            \/ get_setpoint_temperature(zone, "absent") = absent_temperature
    IN  (IF skip_present THEN << >>
         ELSE << Setpoint("present", present_temperature[1]) >>)
        \o (IF skip_absent THEN << >>
            ELSE << Setpoint("absent", absent_temperature[1]) >>)

\* A client that takes an acknowledged write as applied and sends nothing until
\* the next read.
PresentAbsentStartAfterAck(zone_id, present_temperature, absent_temperature) ==
    IF cached_data = NoData THEN "false"
    ELSE IF get_zone_by_id(cached_data, zone_id) = << >> THEN "false"
    ELSE IF write_acked THEN "true"
    ELSE IF ChangedSetpoints(get_zone_by_id(cached_data, zone_id)[1],
                             present_temperature, absent_temperature) = << >>
         THEN "true"
    ELSE "post"

\* set_present_absent_temperature before its await: "false", "true" (nothing
\* to update, no request) or "post".
PresentAbsentStart(zone_id, present_temperature, absent_temperature) ==
    IF cached_data = NoData THEN "false"
    ELSE IF get_zone_by_id(cached_data, zone_id) = << >> THEN "false"
    ELSE IF ChangedSetpoints(get_zone_by_id(cached_data, zone_id)[1],
                             present_temperature, absent_temperature) = << >>
         THEN "true"
    ELSE "post"

\* The other write operations before their await.
PlainWriteStart == IF cached_data = NoData THEN "false" ELSE "post"


\* ------------------------------------------------------------ entity data
\* Zone.mode.
ZoneModes == {"off", "manual", "auto", "party", "holiday"}

\* Category: the thermal function the unit reports as active.  A snapshot
\* without the field has "off".  One behaviour keeps one category.
CATEGORY_HEATING == "heating"

CATEGORY_COOLING == "cooling"

Categories == {CATEGORY_HEATING, CATEGORY_COOLING, "off"}

\* HVACMode.
HVACModes == {"off", "heat", "cool", "auto"}

PRESET_HOME == "home"

PRESET_BOOST == "boost"

PRESET_AWAY == "away"

\* None for a mode, a preset or an optimistic override.
NoValue == "None"

\* The object that says no optimistic preset is set (None is a preset).
_SENTINEL_PRESET == "sentinel"

\* The presets the entity offers (_attr_preset_modes).
ALL_PRESETS == {PRESET_HOME}

\* The mode, presence and temperature fields of the entity's zone.  They come
\* with the snapshot; one behaviour keeps one choice of them.  A zone in manual
\* mode is regulated to its manual temperature or, for the time being, to
\* another setpoint; in the other modes the manual temperature is the one set
\* last.
ZoneStates ==
    { z \in [mode : ZoneModes, holiday_active : BOOLEAN, at_home : BOOLEAN,
             effective_setpoint : {18}, current_manual_temperature : {18, 21}] :
        z.mode # "manual" => z.current_manual_temperature = 21 }

\* ThermostatModel.limits: the present and the absent setpoint have their own
\* bounds; an object without limits gets the defaults.
LimitsOf(s) ==
    IF s \in ServerSnapshots
    THEN [present_min_temp |-> 18, present_max_temp |-> 22,
          absent_min_temp |-> 14, absent_max_temp |-> 20]
    ELSE [present_min_temp |-> 5, present_max_temp |-> 30,
          absent_min_temp |-> 5, absent_max_temp |-> 30]

\* ThermostatModel.season.id; Season.from_dict defaults to winter.
SeasonOf(s) == IF s = "summer" THEN "summer" ELSE "winter"

\* Temperatures a user asks for: below every bound, within the bounds, above
\* every bound.
UserTemperatures == {13, 18, 23}

\* No state written yet.
NoState ==
    [available |-> FALSE, hvac_mode |-> NoValue, preset_mode |-> NoValue,
     temperature |-> << >>]

\* No call into the client yet, or none since the last refresh.  `again` says
\* that a set_present_absent_temperature call is the call before it, made once
\* more.
NoCommand ==
    [op |-> NoValue, zone_id |-> NoValue, present_temperature |-> << >>,
     absent_temperature |-> << >>, temperature |-> << >>, again |-> FALSE]

\* No payload was built: the operation returned before.
NoPayload == << >>

\* MonetaClimateEntity.__init__: no optimistic override; nothing commanded yet.
EntityCreated ==
    /\ optimistic_hvac_mode = NoValue
    /\ optimistic_target_temp = << >>
    /\ optimistic_preset_mode = _SENTINEL_PRESET
    /\ ha_state = NoState
    /\ command = NoCommand
    /\ payload = NoPayload

\* No calendar (None).
NoCalendar == << >>

\* No day edit in progress.
NoEdit == [state |-> "none"]

\* The schedule entities and the clock before anything has used them.
\* No schedule was written to any zone since the snapshot.
NothingWritten == [z \in {"1", "2", "3"} |-> << >>]

\* No async_set_value of the day entity is running.
NoDayEdit == [state |-> "idle"]

ScheduleCreated ==
    /\ now_ts = 0
    /\ calendars = [z \in ZoneIds |-> NoCalendar]
    /\ edit = NoEdit
    /\ display = NoValue
    /\ server = NothingWritten
    /\ day_edits = [h \in Tasks |-> NoDayEdit]

\* ----------------------------------------------------------------- actions
\* A task is one coroutine of the event loop: a refresh of the coordinator, a
\* command of an entity, a press of the refresh button.
\*   idle       not in the client
\*   pressed    async_press invalidated the cache and requested its refresh
\*   fetching   in get_state, awaiting the POST of full_bo
\*   got_state  get_state returned ret[t]
\*   writing    in a write operation, awaiting the POST of post_bo_setpoint
\*   written    the write operation returned ok[t]
\*   write_raised   an exception left the write operation
TypeOK ==
    /\ now \in 0..MaxTime
    /\ polling_interval \in Nat
    /\ polling_interval >= MIN_POLLING_INTERVAL
    /\ cached_data \in Snapshots \cup {ZeroSetpoints, NoData}
    /\ expiration \in {NoExpiration} \cup Nat
    /\ pending \in BOOLEAN
    /\ pc \in [Tasks -> {"idle", "pressed", "fetching", "got_state",
                         "writing", "written", "write_raised"}]
    /\ call_now \in [Tasks -> 0..MaxTime]
    /\ ret \in [Tasks -> Snapshots \cup {NoData}]
    /\ fetched \in [Tasks -> {"no", "stored", "kept"}]
    /\ ok \in [Tasks -> BOOLEAN]
    /\ joined \in [Tasks -> Tasks \cup {0}]
    /\ coordinator_data \in Snapshots \cup {ZeroSetpoints, NoData}
    /\ last_update_success \in BOOLEAN
    /\ write_acked \in BOOLEAN
    /\ ttl_from \in {NoExpiration} \cup 0..MaxTime
    /\ zone_state \in ZoneStates
    /\ category \in Categories
    /\ entity_zone_id \in ZoneIds
    /\ optimistic_hvac_mode \in HVACModes \cup {NoValue}
    /\ optimistic_target_temp \in { << >> } \cup { <<x>> : x \in UserTemperatures }
    /\ optimistic_preset_mode \in ALL_PRESETS \cup {NoValue, _SENTINEL_PRESET}

\* max(polling_interval_minutes, MIN_POLLING_INTERVAL).
EffectivePollingInterval(polling_interval_minutes) ==
    IF polling_interval_minutes > MIN_POLLING_INTERVAL
    THEN polling_interval_minutes ELSE MIN_POLLING_INTERVAL

\* __init__: the interval is floored, the cache is empty.
Init ==
    /\ now = 0
    /\ \E polling_interval_minutes \in (MIN_POLLING_INTERVAL - 1)..MaxPollingConfig :
          polling_interval = EffectivePollingInterval(polling_interval_minutes)
    /\ cached_data = NoData
    /\ expiration = NoExpiration
    /\ pending = FALSE
    /\ pc = [t \in Tasks |-> "idle"]
    /\ call_now = [t \in Tasks |-> 0]
    /\ ret = [t \in Tasks |-> NoData]
    /\ fetched = [t \in Tasks |-> "no"]
    /\ ok = [t \in Tasks |-> FALSE]
    /\ joined = [t \in Tasks |-> 0]
    /\ coordinator_data = NoData
    /\ last_update_success = TRUE
    /\ write_acked = FALSE
    /\ ttl_from = NoExpiration
    /\ zone_state = [mode |-> "auto", holiday_active |-> FALSE, at_home |-> TRUE,
                     effective_setpoint |-> 18, current_manual_temperature |-> 21]
    /\ category = CATEGORY_HEATING
    /\ entity_zone_id = DEFAULT_ZONE_ID
    /\ EntityCreated
    /\ ScheduleCreated

\* The clock advances by one minute.
Tick ==
    /\ now < MaxTime
    /\ now' = now + 1
    /\ UNCHANGED << polling_interval, cached_data, expiration, pending, pc,
                    call_now, ret, fetched, ok, joined, coordinator_data,
                    last_update_success, write_acked, ttl_from >>

\* The task whose fetch is in flight (0 when none is).
FetchingTask ==
    IF \E u \in Tasks : pc[u] = "fetching"
    THEN CHOOSE u \in Tasks : pc[u] = "fetching" ELSE 0

\* get_state up to its await (called by the coordinator's refresh): either the
\* early return of the cached snapshot, or the in-flight flag is set and the
\* POST of full_bo goes out.
get_state_call(t) ==
    /\ pc[t] \in {"idle", "pressed"}
    /\ write_acked' = FALSE
    /\ IF CacheHit
       THEN /\ pc' = [pc EXCEPT ![t] = "got_state"]
            /\ ret' = [ret EXCEPT ![t] = cached_data]
            /\ joined' = [joined EXCEPT ![t] = IF pending THEN FetchingTask ELSE 0]
            /\ UNCHANGED << pending, call_now >>
       ELSE /\ pc' = [pc EXCEPT ![t] = "fetching"]
            /\ pending' = TRUE
            /\ call_now' = [call_now EXCEPT ![t] = now]
            /\ UNCHANGED << ret, joined >>
    /\ UNCHANGED << now, polling_interval, cached_data, expiration, fetched, ok,
                    coordinator_data, last_update_success, ttl_from >>

\* An in-flight flag that is cleared only when a snapshot was stored.
PendingAfterStoredFetch(outcome) == pending /\ outcome # "stored"

\* get_state's `finally`: the in-flight flag is cleared whatever the try block
\* did.
PendingAfterFetch(outcome) == FALSE

\* get_state after its await: the POST ended in r.
get_state_resume(t, r) ==
    /\ pc[t] = "fetching"
    /\ LET outcome == GetStateOutcome(r) IN
       /\ cached_data' = CachedAfterFetch(outcome, r)
       /\ expiration' = IF outcome = "stored" THEN FetchExpiration(t) ELSE expiration
       /\ ttl_from' = IF outcome = "stored" THEN call_now[t] ELSE ttl_from
       /\ pending' = PendingAfterFetch(outcome)
       /\ pc' = [pc EXCEPT ![t] = "got_state"]
       /\ ret' = [ret EXCEPT ![t] = cached_data']
       /\ fetched' = [fetched EXCEPT ![t] = IF outcome = "stored" THEN "stored"
                                            ELSE "kept"]
    /\ call_now' = [call_now EXCEPT ![t] = 0]
    /\ UNCHANGED << now, polling_interval, ok, joined, coordinator_data,
                    last_update_success, write_acked >>

\* _async_update_data after get_state returned: None raises UpdateFailed, which
\* the coordinator records as a failed update; anything else is the new data.
_async_update_data(t) ==
    /\ pc[t] = "got_state"
    /\ IF ret[t] = NoData
       THEN /\ last_update_success' = FALSE
            /\ UNCHANGED coordinator_data
       ELSE /\ last_update_success' = TRUE
            /\ coordinator_data' = ret[t]
    /\ pc' = [pc EXCEPT ![t] = "idle"]
    /\ ret' = [ret EXCEPT ![t] = NoData]
    /\ fetched' = [fetched EXCEPT ![t] = "no"]
    /\ joined' = [u \in Tasks |-> IF u = t \/ joined[u] = t THEN 0 ELSE joined[u]]
    /\ UNCHANGED << now, polling_interval, cached_data, expiration, pending,
                    call_now, ok, write_acked, ttl_from >>

\* A write operation up to its await: start is "false" or "true" for an early
\* return, "post" when the payload goes out.
WriteCall(t, start) ==
    /\ pc[t] = "idle"
    /\ pc' = [pc EXCEPT ![t] = IF start = "post" THEN "writing" ELSE "written"]
    /\ ok' = [ok EXCEPT ![t] = (start = "true")]
    /\ UNCHANGED << now, polling_interval, cached_data, expiration, pending,
                    call_now, ret, fetched, joined, coordinator_data,
                    last_update_success, write_acked, ttl_from >>

\* set_off, set_auto, set_heat_cool, set_party, set_frost_protection,
\* set_holiday, set_manual_temperature, set_schedule_by_zone_id.
write_call(t, o) ==
    /\ o \in PlainWriteOps
    /\ WriteCall(t, PlainWriteStart)

\* The operations that take a zone id.  Only
\* set_present_absent_temperature looks the zone up before it posts.
ZoneScopedOps ==
    {"set_manual_temperature", "set_present_absent_temperature",
     "set_schedule_by_zone_id", "set_party"}

\* zone_id = None: set_party for every zone.
NoZone == "None"

\* Temperatures set_manual_temperature is called with.
ManualTemperatures == {16, 20}

set_manual_temperature(t, zone_id, temperature) ==
    write_call(t, "set_manual_temperature")

\* The schedule does not decide whether the payload goes out.
set_schedule_by_zone_id(t, zone_id) ==
    write_call(t, "set_schedule_by_zone_id")

\* zones = the zones with this id (possibly none), or all zones for None.
set_party(t, zone_id) ==
    write_call(t, "set_party")

set_present_absent_temperature(t, zone_id, present_temperature, absent_temperature) ==
    WriteCall(t, PresentAbsentStart(zone_id, present_temperature, absent_temperature))

\* _invalidate_cache.
InvalidatedExpiration == NoExpiration

\* _set_request after its await: the POST ended in r.
write_resume(t, r) ==
    /\ pc[t] = "writing"
    /\ LET res == _set_request(r) IN
       /\ pc' = [pc EXCEPT ![t] = IF res.raised THEN "write_raised" ELSE "written"]
       /\ ok' = [ok EXCEPT ![t] = res.value]
       /\ expiration' = IF res.invalidate THEN InvalidatedExpiration ELSE expiration
       /\ ttl_from' = IF res.invalidate THEN NoExpiration ELSE ttl_from
       /\ write_acked' = IF ~res.raised /\ res.value THEN TRUE ELSE write_acked
    /\ UNCHANGED << now, polling_interval, cached_data, pending, call_now,
                    ret, fetched, joined, coordinator_data, last_update_success >>

\* The command that called the write operation goes on.
write_done(t) ==
    /\ pc[t] \in {"written", "write_raised"}
    /\ pc' = [pc EXCEPT ![t] = "idle"]
    /\ ok' = [ok EXCEPT ![t] = FALSE]
    /\ UNCHANGED << now, polling_interval, cached_data, expiration, pending,
                    call_now, ret, fetched, joined, coordinator_data,
                    last_update_success, write_acked, ttl_from >>

\* MonetaRefreshButton.async_press up to its await: the cache is invalidated,
\* then the refresh is requested.
async_press(t) ==
    /\ pc[t] = "idle"
    /\ expiration' = InvalidatedExpiration
    /\ ttl_from' = NoExpiration
    /\ pc' = [pc EXCEPT ![t] = "pressed"]
    /\ UNCHANGED << now, polling_interval, cached_data, pending, call_now,
                    ret, fetched, ok, joined, coordinator_data,
                    last_update_success, write_acked >>

Next ==
    \/ Tick /\ UNCHANGED << entity_vars, schedule_vars >>
    \/ \E t \in Tasks : get_state_call(t) /\ UNCHANGED << entity_vars, schedule_vars >>
    \/ \E t \in Tasks, r \in FullResponses :
          get_state_resume(t, r) /\ UNCHANGED << entity_vars, schedule_vars >>
    \/ \E t \in Tasks : _async_update_data(t) /\ UNCHANGED << entity_vars, schedule_vars >>
    \/ \E t \in Tasks, o \in PlainWriteOps \ ZoneScopedOps :
          write_call(t, o) /\ UNCHANGED << entity_vars, schedule_vars >>
    \/ \E t \in Tasks, zone_id \in ZoneIds, temperature \in ManualTemperatures :
          set_manual_temperature(t, zone_id, temperature) /\ UNCHANGED << entity_vars, schedule_vars >>
    \/ \E t \in Tasks, zone_id \in ZoneIds :
          set_schedule_by_zone_id(t, zone_id) /\ UNCHANGED << entity_vars, schedule_vars >>
    \/ \E t \in Tasks, zone_id \in ZoneIds \cup {NoZone} :
          set_party(t, zone_id) /\ UNCHANGED << entity_vars, schedule_vars >>
    \/ \E t \in Tasks, zone_id \in ZoneIds,
          present_temperature \in TemperatureInputs,
          absent_temperature \in TemperatureInputs :
          /\ set_present_absent_temperature(t, zone_id, present_temperature,
                                            absent_temperature)
          /\ UNCHANGED << entity_vars, schedule_vars >>
    \/ \E t \in Tasks, r \in SetpointResponses :
          write_resume(t, r) /\ UNCHANGED << entity_vars, schedule_vars >>
    \/ \E t \in Tasks : write_done(t) /\ UNCHANGED << entity_vars, schedule_vars >>
    \/ \E t \in Tasks : async_press(t) /\ UNCHANGED << entity_vars, schedule_vars >>

Spec == Init /\ [][Next]_vars

\* A POST of get_state that is in flight ends, with an answer or an error: the
\* event loop resumes the coroutine that awaits it.
FetchEnds ==
    \E t \in Tasks, r \in FullResponses :
       get_state_resume(t, r) /\ UNCHANGED << entity_vars, schedule_vars >>

FairSpec == Spec /\ WF_vars(FetchEnds)


\* MonetaClimateEntity.available (and the zone sensors' and numbers'): the last
\* update succeeded and the zone is in the coordinator's data.
Available(zone_id) ==
    /\ last_update_success
    /\ coordinator_data # NoData
    /\ \E i \in 1..Len(ZonesOf(coordinator_data)) :
          ZonesOf(coordinator_data)[i].id = zone_id

FetchesInFlight == { t \in Tasks : pc[t] = "fetching" }

\* --------------------------------------------------- MonetaClimateEntity
\* _zone: the zone with the entity's id in the coordinator's data; << >> is
\* None.
_zone ==
    LET z == get_zone_by_id(coordinator_data, entity_zone_id) IN
    IF z = << >> THEN << >>
    ELSE << [id |-> z[1].id, setpoints |-> z[1].setpoints,
             mode |-> zone_state.mode,
             holiday_active |-> zone_state.holiday_active,
             at_home |-> zone_state.at_home,
             effective_setpoint |-> zone_state.effective_setpoint,
             current_manual_temperature |->
                 zone_state.current_manual_temperature] >>

\* A season that is never read from the snapshot.
SeasonDefault == "winter"

_season ==
    IF coordinator_data = NoData THEN "winter" ELSE SeasonOf(coordinator_data)

\* The category of the coordinator's data; "off" without data.
_category ==
    IF coordinator_data = NoData THEN "off" ELSE category

_VALID_MODES_BY_CATEGORY(c) ==
    CASE c = CATEGORY_HEATING -> {"off", "heat", "auto"}
      [] c = CATEGORY_COOLING -> {"off", "cool", "auto"}
      [] OTHER -> {"off"}

\* The operating modes the entity offers.
hvac_modes == _VALID_MODES_BY_CATEGORY(_category)

hvac_mode ==
    IF optimistic_hvac_mode # NoValue THEN optimistic_hvac_mode
    ELSE IF _zone = << >> THEN NoValue
    ELSE IF _zone[1].mode = "off" THEN "off"
    ELSE IF _zone[1].mode = "manual"
         THEN IF _season = "winter" THEN "heat" ELSE "cool"
    ELSE "auto"

_MODE_TO_PRESET(mode) ==
    CASE mode = "auto" -> PRESET_HOME
      [] mode = "party" -> PRESET_BOOST
      [] mode = "holiday" -> PRESET_AWAY
      [] OTHER -> NoValue

\* A preset taken from zone.mode alone.
PresetFromModeOnly ==
    IF optimistic_preset_mode # _SENTINEL_PRESET THEN optimistic_preset_mode
    ELSE IF _zone = << >> THEN NoValue
    ELSE _MODE_TO_PRESET(_zone[1].mode)

preset_mode ==
    IF optimistic_preset_mode # _SENTINEL_PRESET THEN optimistic_preset_mode
    ELSE IF _zone = << >> THEN NoValue
    ELSE IF _zone[1].holiday_active THEN PRESET_AWAY
    ELSE _MODE_TO_PRESET(_zone[1].mode)

\* << >> is None.
target_temperature ==
    IF optimistic_target_temp # << >> THEN optimistic_target_temp
    ELSE IF _zone = << >> THEN << >>
    ELSE << _zone[1].effective_setpoint >>

\* What async_write_ha_state reads from the entity.
WrittenState ==
    [available |-> Available(entity_zone_id), hvac_mode |-> hvac_mode,
     preset_mode |-> preset_mode, temperature |-> target_temperature]

\* No bounds check.
Unclamped(temperature, lo, hi) == temperature

\* async_set_temperature's bounds check: a value outside [lo, hi] is moved to
\* the nearer bound, max(lo, min(temperature, hi)).
ClampedTemperature(temperature, lo, hi) ==
    IF lo <= temperature /\ temperature <= hi THEN temperature
    ELSE LET m == IF temperature < hi THEN temperature ELSE hi
         IN  IF lo > m THEN lo ELSE m

\* The payload of set_present_absent_temperature: the zone with the setpoints
\* to change.
PresentAbsentPayload(zone_id, setpoints) ==
    << [zones |-> << [id |-> zone_id, setpoints |-> setpoints] >>] >>

\* The payload of set_manual_temperature.
ManualPayload(zone_id, temperature) ==
    << [zones |-> << [id |-> zone_id, currentManualTemperature |-> temperature,
                      mode |-> "manual"] >>] >>

SETPOINT_EFFECTIVE == "effective"

\* Python's `value or default` on an optional temperature: None and 0 are both
\* falsy.
OrDefault(value, default) ==
    IF value = << >> \/ value[1] = 0 THEN default ELSE value[1]

\* self._cached_data.zones.
CachedZones == ZonesOf(cached_data)

\* An off entry whose setpoint is the zone's temperature as it is.
OffEntryAtCurrent(zone) ==
    [id |-> zone.id, mode |-> "off", expiration |-> 0,
     setpoints |-> << Setpoint(SETPOINT_EFFECTIVE, zone.temperature) >>]

\* set_off's entry for a zone.
OffEntry(zone) ==
    [id |-> zone.id, mode |-> "off", expiration |-> 0,
     setpoints |-> << Setpoint(SETPOINT_EFFECTIVE, zone.temperature + 1) >>]

\* set_auto's entry for a zone.
AutoEntry(zone) == [id |-> zone.id, mode |-> "auto", expiration |-> 0]

\* set_heat_cool's entry for a zone.
HeatCoolEntry(zone) ==
    LET present_temp == OrDefault(get_setpoint_temperature(zone, "present"), 21)
    IN  [id |-> zone.id, mode |-> "manual",
         currentManualTemperature |-> present_temp,
         setpoints |-> << Setpoint(SETPOINT_EFFECTIVE, present_temp) >>]

\* set_frost_protection's entry for a zone.
FrostProtectionEntry(zone) ==
    LET frost_temp == OrDefault(get_setpoint_temperature(zone, "absent"), 7)
    IN  [id |-> zone.id, mode |-> "off", expiration |-> 0,
         setpoints |-> << Setpoint(SETPOINT_EFFECTIVE, frost_temp) >>]

SetOffPayload ==
    << [zones |-> [i \in 1..Len(CachedZones) |-> OffEntry(CachedZones[i])]] >>

SetAutoPayload ==
    << [zones |-> [i \in 1..Len(CachedZones) |-> AutoEntry(CachedZones[i])]] >>

SetHeatCoolPayload ==
    << [zones |-> [i \in 1..Len(CachedZones) |-> HeatCoolEntry(CachedZones[i])]] >>

SetFrostProtectionPayload ==
    << [zones |-> [i \in 1..Len(CachedZones) |-> FrostProtectionEntry(CachedZones[i])]] >>

\* The expiration one hour after the next full minute.
PartyExpirationInAnHour(ts) == ((ts \div 60) + 1) * 60 + 3600

\* set_party's expiration for the clock reading ts: the next full minute is
\* moved to the next timestamp that is 2220 modulo 7200, then 7200 later, and
\* 7200 later again if that is less than an hour away.
PartyExpiration(ts) ==
    LET now_rounded == ((ts \div 60) + 1) * 60
        remainder == now_rounded % 7200
        next_valid_base == IF remainder <= 2220
                           THEN now_rounded - remainder + 2220
                           ELSE now_rounded - remainder + 7200 + 2220
        expiration_ts == next_valid_base + 7200
        minutes_from_now == (expiration_ts - ts) \div 60
    IN  IF minutes_from_now < 60 THEN expiration_ts + 7200 ELSE expiration_ts

\* set_party's zones: the zones with this id, or every zone for None.
PartyZones(zone_id) ==
    IF zone_id = NoZone THEN CachedZones
    ELSE SelectSeq(CachedZones, LAMBDA z : z.id = zone_id)

SetPartyPayload(zone_id, ts) ==
    << [zones |-> [i \in 1..Len(PartyZones(zone_id)) |->
          LET zone == PartyZones(zone_id)[i] IN
          [id |-> zone.id, mode |-> "party", expiration |-> PartyExpiration(ts),
           currentManualTemperature |->
               OrDefault(get_setpoint_temperature(zone, "present"), 21)]]] >>

\* set_holiday's expiration for the clock reading ts: the next multiple of
\* 2,000,000 after ts, and 2,000,000 later when its millions digit is
\* neither 0 nor 2.
HolidayExpiration(ts) ==
    LET base == ((ts \div 2000000) + 1) * 2000000 IN
    IF (base \div 1000000) % 10 \notin {0, 2} THEN base + 2000000 ELSE base

SetHolidayPayload(ts) ==
    << [zones |-> [i \in 1..Len(CachedZones) |->
          [id |-> CachedZones[i].id, mode |-> "holiday",
           expiration |-> HolidayExpiration(ts)]]] >>

\* The call into the client and the payload it built; no payload when the
\* operation returned before its POST.
ClientCall(t, op, zone_id, present_temperature, absent_temperature, temperature, built) ==
    /\ LET call == [op |-> op, zone_id |-> zone_id,
                    present_temperature |-> present_temperature,
                    absent_temperature |-> absent_temperature,
                    temperature |-> temperature, again |-> FALSE]
       IN  command' = [call EXCEPT
                          !.again = /\ op = "set_present_absent_temperature"
                                    /\ [command EXCEPT !.again = FALSE] = call]
    /\ payload' = IF pc'[t] = "writing" THEN built ELSE NoPayload

\* set_present_absent_temperature called on the client, as the setpoint number
\* entities and async_set_temperature do.
call_set_present_absent_temperature(t, zone_id, present_temperature, absent_temperature) ==
    /\ set_present_absent_temperature(t, zone_id, present_temperature,
                                      absent_temperature)
    /\ ClientCall(t, "set_present_absent_temperature", zone_id,
                  present_temperature, absent_temperature, << >>,
                  IF get_zone_by_id(cached_data, zone_id) = << >> THEN NoPayload
                  ELSE PresentAbsentPayload(zone_id,
                          ChangedSetpoints(get_zone_by_id(cached_data, zone_id)[1],
                                           present_temperature, absent_temperature)))

call_set_manual_temperature(t, zone_id, temperature) ==
    /\ set_manual_temperature(t, zone_id, temperature)
    /\ ClientCall(t, "set_manual_temperature", zone_id, << >>, << >>,
                  <<temperature>>, ManualPayload(zone_id, temperature))

\* async_set_temperature up to the await inside the client: the optimistic
\* target is shown, then the value goes to the present or the absent setpoint
\* (AUTO) or to the manual temperature (any other mode), after the bounds
\* check.  Without a zone the handler returns at once.
async_set_temperature(t, temperature) ==
    /\ _zone # << >>
    /\ optimistic_target_temp' = <<temperature>>
    /\ UNCHANGED << zone_state, category, entity_zone_id, optimistic_hvac_mode,
                    optimistic_preset_mode >>
    /\ LET limits == LimitsOf(coordinator_data) IN
       IF hvac_mode = "auto"
       THEN IF _zone[1].at_home
            THEN call_set_present_absent_temperature(t, entity_zone_id,
                    << ClampedTemperature(temperature, limits.present_min_temp,
                                          limits.present_max_temp) >>, << >>)
            ELSE call_set_present_absent_temperature(t, entity_zone_id, << >>,
                    << ClampedTemperature(temperature, limits.absent_min_temp,
                                          limits.absent_max_temp) >>)
       ELSE call_set_manual_temperature(t, entity_zone_id,
                    ClampedTemperature(temperature, limits.present_min_temp,
                                       limits.present_max_temp))
    /\ ha_state' = WrittenState'

\* async_set_hvac_mode up to the await inside the client.
async_set_hvac_mode(t, mode) ==
    /\ optimistic_hvac_mode' = mode
    /\ optimistic_preset_mode' = IF mode = "auto" THEN PRESET_HOME ELSE NoValue
    /\ UNCHANGED << zone_state, category, entity_zone_id, optimistic_target_temp >>
    /\ LET op == CASE mode = "off" -> "set_off"
                   [] mode = "auto" -> "set_auto"
                   [] OTHER -> "set_heat_cool"
       IN /\ write_call(t, op)
          /\ ClientCall(t, op, NoValue, << >>, << >>, << >>,
                        CASE mode = "off" -> SetOffPayload
                          [] mode = "auto" -> SetAutoPayload
                          [] OTHER -> SetHeatCoolPayload)
    /\ ha_state' = WrittenState'

\* async_set_preset_mode up to the await inside the client, for the presets
\* the entity offers: the schedule preset calls set_auto.
async_set_preset_mode(t, preset) ==
    /\ preset = PRESET_HOME
    /\ optimistic_preset_mode' = preset
    /\ optimistic_hvac_mode' = "auto"
    /\ UNCHANGED << zone_state, category, entity_zone_id, optimistic_target_temp >>
    /\ write_call(t, "set_auto")
    /\ ClientCall(t, "set_auto", NoValue, << >>, << >>, << >>, SetAutoPayload)
    /\ ha_state' = WrittenState'

\* ---- The climate entity of the first integration (moneta_thermostat), which
\* keeps no optimistic overrides.
moneta_thermostat_hvac_mode ==
    IF _zone = << >> THEN NoValue
    ELSE IF _zone[1].mode = "off" THEN "off"
    ELSE IF _zone[1].mode = "manual"
         THEN IF _season = "winter" THEN "heat" ELSE "cool"
    ELSE "auto"

moneta_thermostat_target_temperature ==
    IF _zone = << >> THEN << >> ELSE << _zone[1].effective_setpoint >>

\* The first integration's preset labels by zone.mode: off has the frost
\* protection preset, manual has none.
moneta_thermostat_MODE_TO_PRESET(mode) ==
    CASE mode = "auto" -> "Pianificazione"
      [] mode = "party" -> "Boost"
      [] mode = "holiday" -> "Fuori casa"
      [] mode = "off" -> "Protezione antigelo"
      [] OTHER -> NoValue

\* An auto zone nobody is at home in is shown as away.
moneta_thermostat_preset_mode ==
    IF _zone = << >> THEN NoValue
    ELSE IF _zone[1].mode = "auto" /\ ~_zone[1].at_home THEN "Fuori casa"
    ELSE moneta_thermostat_MODE_TO_PRESET(_zone[1].mode)

\* A bounds check that replaces a value out of range by present_max_temp.
InRangeOrMaximum(temperature, limits) ==
    IF limits.present_min_temp <= temperature
           /\ temperature <= limits.present_max_temp
    THEN temperature
    ELSE limits.present_max_temp

\* Its bounds check: a value outside [present_min_temp, present_max_temp] is
\* replaced by present_min_temp.
InRangeOrMinimum(temperature, limits) ==
    IF limits.present_min_temp <= temperature
           /\ temperature <= limits.present_max_temp
    THEN temperature
    ELSE limits.present_min_temp

\* Its async_set_temperature up to the await inside the client: in AUTO the
\* request is logged and dropped, with no call into the client and no refresh.
moneta_thermostat_async_set_temperature(t, temperature) ==
    /\ _zone # << >>
    /\ IF moneta_thermostat_hvac_mode = "auto"
       THEN /\ pc[t] = "idle"
            /\ command' = NoCommand
            /\ payload' = NoPayload
            /\ UNCHANGED client_vars
       ELSE call_set_manual_temperature(t, entity_zone_id,
                InRangeOrMinimum(temperature, LimitsOf(coordinator_data)))
    /\ UNCHANGED << zone_state, category, entity_zone_id, optimistic_hvac_mode,
                    optimistic_target_temp, optimistic_preset_mode, ha_state >>

\* coordinator.async_request_refresh, which ends every command: get_state is
\* called; the write call before it is over.
async_request_refresh(t) ==
    /\ get_state_call(t)
    /\ command' = NoCommand
    /\ payload' = NoPayload
    /\ UNCHANGED << zone_state, category, entity_zone_id, optimistic_hvac_mode,
                    optimistic_target_temp, optimistic_preset_mode, ha_state >>

\* A reset that forgets the preset override.
ClearModeAndTarget ==
    /\ optimistic_hvac_mode' = NoValue
    /\ optimistic_target_temp' = << >>
    /\ UNCHANGED optimistic_preset_mode

\* _clear_optimistic.
_clear_optimistic ==
    /\ optimistic_hvac_mode' = NoValue
    /\ optimistic_target_temp' = << >>
    /\ optimistic_preset_mode' = _SENTINEL_PRESET

\* The refresh ends and the coordinator tells its listeners:
\* _handle_coordinator_update clears the overrides and writes the state.
_handle_coordinator_update(t) ==
    /\ _async_update_data(t)
    /\ _clear_optimistic
    /\ UNCHANGED << zone_state, category, entity_zone_id, command, payload >>
    /\ ha_state' = WrittenState'

\* The entity exists, so a first refresh has succeeded: its snapshot is cached
\* until now + interval, and the entities were set up from the zones of a
\* snapshot.
EntityInit ==
    /\ now = 0
    /\ polling_interval = MIN_POLLING_INTERVAL
    /\ cached_data \in ServerSnapshots
    /\ expiration = polling_interval
    /\ pending = FALSE
    /\ pc = [t \in Tasks |-> "idle"]
    /\ call_now = [t \in Tasks |-> 0]
    /\ ret = [t \in Tasks |-> NoData]
    /\ fetched = [t \in Tasks |-> "no"]
    /\ ok = [t \in Tasks |-> FALSE]
    /\ joined = [t \in Tasks |-> 0]
    /\ coordinator_data = cached_data
    /\ last_update_success = TRUE
    /\ write_acked = FALSE
    /\ ttl_from = 0
    /\ zone_state \in ZoneStates
    /\ category = CATEGORY_HEATING
    /\ entity_zone_id \in {"1", "2"}
    /\ EntityCreated
    /\ ScheduleCreated

\* The coroutine that runs the entity's commands and the refresh after them.
EntityTask == 1

EntityNext ==
    \/ \E temperature \in UserTemperatures :
          /\ async_set_temperature(EntityTask, temperature)
          /\ UNCHANGED schedule_vars
    \/ \E temperature \in UserTemperatures :
          /\ moneta_thermostat_async_set_temperature(EntityTask, temperature)
          /\ UNCHANGED schedule_vars
    \/ \E mode \in HVACModes :
          async_set_hvac_mode(EntityTask, mode) /\ UNCHANGED schedule_vars
    \/ \E preset \in ALL_PRESETS :
          async_set_preset_mode(EntityTask, preset) /\ UNCHANGED schedule_vars
    \/ \E zone_id \in {entity_zone_id},
          present_temperature \in TemperatureInputs,
          absent_temperature \in TemperatureInputs :
          /\ call_set_present_absent_temperature(EntityTask, zone_id,
                                                 present_temperature,
                                                 absent_temperature)
          /\ UNCHANGED << zone_state, category, entity_zone_id, optimistic_hvac_mode,
                          optimistic_target_temp, optimistic_preset_mode, ha_state >>
          /\ UNCHANGED schedule_vars
    \/ \E r \in SetpointResponses :
          /\ write_resume(EntityTask, r)
          /\ UNCHANGED << entity_vars, schedule_vars >>
    \/ write_done(EntityTask) /\ UNCHANGED << entity_vars, schedule_vars >>
    \/ async_request_refresh(EntityTask) /\ UNCHANGED schedule_vars
    \/ \E r \in FullResponses :
          /\ get_state_resume(EntityTask, r)
          /\ UNCHANGED << entity_vars, schedule_vars >>
    \/ _handle_coordinator_update(EntityTask) /\ UNCHANGED schedule_vars

EntitySpec == EntityInit /\ [][EntityNext]_vars

\* ---- The entity over every combination of category, season and zone fields:
\* the snapshot's category is drawn independently of its season.
ModeInit ==
    /\ now = 0
    /\ polling_interval = MIN_POLLING_INTERVAL
    /\ cached_data \in ServerSnapshots
    /\ expiration = polling_interval
    /\ pending = FALSE
    /\ pc = [t \in Tasks |-> "idle"]
    /\ call_now = [t \in Tasks |-> 0]
    /\ ret = [t \in Tasks |-> NoData]
    /\ fetched = [t \in Tasks |-> "no"]
    /\ ok = [t \in Tasks |-> FALSE]
    /\ joined = [t \in Tasks |-> 0]
    /\ coordinator_data = cached_data
    /\ last_update_success = TRUE
    /\ write_acked = FALSE
    /\ ttl_from = 0
    /\ zone_state \in ZoneStates
    /\ category \in Categories
    /\ entity_zone_id \in {"1", "2"}
    /\ EntityCreated
    /\ ScheduleCreated

\* A refresh is requested and served; the entity writes its state.
ModeNext ==
    \/ async_request_refresh(EntityTask) /\ UNCHANGED schedule_vars
    \/ _handle_coordinator_update(EntityTask) /\ UNCHANGED schedule_vars

ModeSpec == ModeInit /\ [][ModeNext]_vars

\* ------------------------------------- the client's mode operations alone
\* Snapshots the mode operations are applied to.
PayloadSnapshots == Snapshots \cup {ZeroSetpoints}

\* A client that has fetched one of the snapshots, or none yet.
PayloadInit ==
    /\ now = 0
    /\ polling_interval = MIN_POLLING_INTERVAL
    /\ cached_data \in PayloadSnapshots \cup {NoData}
    /\ expiration = IF cached_data = NoData THEN NoExpiration ELSE polling_interval
    /\ pending = FALSE
    /\ pc = [t \in Tasks |-> "idle"]
    /\ call_now = [t \in Tasks |-> 0]
    /\ ret = [t \in Tasks |-> NoData]
    /\ fetched = [t \in Tasks |-> "no"]
    /\ ok = [t \in Tasks |-> FALSE]
    /\ joined = [t \in Tasks |-> 0]
    /\ coordinator_data = cached_data
    /\ last_update_success = TRUE
    /\ write_acked = FALSE
    /\ ttl_from = IF cached_data = NoData THEN NoExpiration ELSE 0
    /\ zone_state = [mode |-> "auto", holiday_active |-> FALSE, at_home |-> TRUE,
                     effective_setpoint |-> 18, current_manual_temperature |-> 21]
    /\ category = CATEGORY_HEATING
    /\ entity_zone_id = DEFAULT_ZONE_ID
    /\ EntityCreated
    /\ ScheduleCreated

\* What a call into the client leaves alone.
ClientCallFrame ==
    UNCHANGED << zone_state, category, entity_zone_id, optimistic_hvac_mode,
                 optimistic_target_temp, optimistic_preset_mode, ha_state,
                 schedule_vars >>

\* set_off up to its await.
call_set_off(t) ==
    /\ write_call(t, "set_off")
    /\ ClientCall(t, "set_off", NoValue, << >>, << >>, << >>, SetOffPayload)
    /\ ClientCallFrame

\* set_auto up to its await.
call_set_auto(t) ==
    /\ write_call(t, "set_auto")
    /\ ClientCall(t, "set_auto", NoValue, << >>, << >>, << >>, SetAutoPayload)
    /\ ClientCallFrame

\* set_heat_cool up to its await.
call_set_heat_cool(t) ==
    /\ write_call(t, "set_heat_cool")
    /\ ClientCall(t, "set_heat_cool", NoValue, << >>, << >>, << >>,
                  SetHeatCoolPayload)
    /\ ClientCallFrame

\* set_frost_protection up to its await.
call_set_frost_protection(t) ==
    /\ write_call(t, "set_frost_protection")
    /\ ClientCall(t, "set_frost_protection", NoValue, << >>, << >>, << >>,
                  SetFrostProtectionPayload)
    /\ ClientCallFrame

\* set_party up to its await; time.time() reads now_ts.
call_set_party(t, zone_id) ==
    /\ set_party(t, zone_id)
    /\ ClientCall(t, "set_party", zone_id, << >>, << >>, << >>,
                  SetPartyPayload(zone_id, now_ts))
    /\ ClientCallFrame

PayloadNext ==
    \/ call_set_off(EntityTask)
    \/ call_set_auto(EntityTask)
    \/ call_set_heat_cool(EntityTask)
    \/ call_set_frost_protection(EntityTask)
    \/ \E r \in SetpointResponses :
          /\ write_resume(EntityTask, r)
          /\ UNCHANGED << entity_vars, schedule_vars >>
    \/ write_done(EntityTask) /\ UNCHANGED << entity_vars, schedule_vars >>

PayloadSpec == PayloadInit /\ [][PayloadNext]_vars

\* ------------------------------------------------------- set_party alone
\* The clock readings set_party is called at: two hours and a minute.
MaxSeconds == 7260

\* The zone ids set_party is called with.
PartyZoneIds == {NoZone, "2"}

\* The winter snapshot is cached and the clock shows any second.
PartyInit ==
    /\ now = 0
    /\ polling_interval = MIN_POLLING_INTERVAL
    /\ cached_data = "winter"
    /\ expiration = polling_interval
    /\ pending = FALSE
    /\ pc = [t \in Tasks |-> "idle"]
    /\ call_now = [t \in Tasks |-> 0]
    /\ ret = [t \in Tasks |-> NoData]
    /\ fetched = [t \in Tasks |-> "no"]
    /\ ok = [t \in Tasks |-> FALSE]
    /\ joined = [t \in Tasks |-> 0]
    /\ coordinator_data = cached_data
    /\ last_update_success = TRUE
    /\ write_acked = FALSE
    /\ ttl_from = 0
    /\ zone_state = [mode |-> "auto", holiday_active |-> FALSE, at_home |-> TRUE,
                     effective_setpoint |-> 18, current_manual_temperature |-> 21]
    /\ category = CATEGORY_HEATING
    /\ entity_zone_id = DEFAULT_ZONE_ID
    /\ EntityCreated
    /\ now_ts \in 0..MaxSeconds
    /\ calendars = [z \in ZoneIds |-> NoCalendar]
    /\ edit = NoEdit
    /\ display = NoValue
    /\ server = NothingWritten
    /\ day_edits = [h \in Tasks |-> NoDayEdit]

PartyNext ==
    \/ \E zone_id \in PartyZoneIds : call_set_party(EntityTask, zone_id)
    \/ \E r \in SetpointResponses :
          /\ write_resume(EntityTask, r)
          /\ UNCHANGED << entity_vars, schedule_vars >>
    \/ write_done(EntityTask) /\ UNCHANGED << entity_vars, schedule_vars >>

PartySpec == PartyInit /\ [][PartyNext]_vars

\* ----------------------------------------------------- set_holiday alone
\* The clock readings set_holiday is called at, in millions of seconds: the
\* years 2025 to 2026, every millions digit twice.
FirstMillion == 1760

LastMillion == 1779

\* The first two seconds and the last second of each million.
HolidayReadings ==
    { k * 1000000 + d : k \in FirstMillion..LastMillion, d \in {0, 1, 999999} }

\* A snapshot is cached and the clock shows one of the readings.
HolidayInit ==
    /\ now = 0
    /\ polling_interval = MIN_POLLING_INTERVAL
    /\ cached_data \in ServerSnapshots
    /\ expiration = polling_interval
    /\ pending = FALSE
    /\ pc = [t \in Tasks |-> "idle"]
    /\ call_now = [t \in Tasks |-> 0]
    /\ ret = [t \in Tasks |-> NoData]
    /\ fetched = [t \in Tasks |-> "no"]
    /\ ok = [t \in Tasks |-> FALSE]
    /\ joined = [t \in Tasks |-> 0]
    /\ coordinator_data = cached_data
    /\ last_update_success = TRUE
    /\ write_acked = FALSE
    /\ ttl_from = 0
    /\ zone_state = [mode |-> "auto", holiday_active |-> FALSE, at_home |-> TRUE,
                     effective_setpoint |-> 18, current_manual_temperature |-> 21]
    /\ category = CATEGORY_HEATING
    /\ entity_zone_id = DEFAULT_ZONE_ID
    /\ EntityCreated
    /\ now_ts \in HolidayReadings
    /\ calendars = [z \in ZoneIds |-> NoCalendar]
    /\ edit = NoEdit
    /\ display = NoValue
    /\ server = NothingWritten
    /\ day_edits = [h \in Tasks |-> NoDayEdit]

\* set_holiday up to its await; time.time() reads now_ts.
call_set_holiday(t) ==
    /\ write_call(t, "set_holiday")
    /\ ClientCall(t, "set_holiday", NoValue, << >>, << >>, << >>,
                  SetHolidayPayload(now_ts))
    /\ ClientCallFrame

HolidayNext ==
    \/ call_set_holiday(EntityTask)
    \/ \E r \in SetpointResponses :
          /\ write_resume(EntityTask, r)
          /\ UNCHANGED << entity_vars, schedule_vars >>
    \/ write_done(EntityTask) /\ UNCHANGED << entity_vars, schedule_vars >>

HolidaySpec == HolidayInit /\ [][HolidayNext]_vars

\* ------------------------------------------------------ the weekly schedule
DAYS_OF_WEEK == << "MON", "TUE", "WED", "THU", "FRI", "SAT", "SUN" >>

\* models.Band: a time interval of one day with the setpoint type it selects.
Band(id, setpoint_type, start_hour, start_min, end_hour, end_min) ==
    [id |-> id, setpoint_type |-> setpoint_type, start_hour |-> start_hour,
     start_min |-> start_min, end_hour |-> end_hour, end_min |-> end_min]

\* Band.to_dict: the band as the vendor JSON has it.
to_dict(band) ==
    [id |-> band.id, setpointType |-> band.setpoint_type,
     start |-> [hour |-> band.start_hour, min |-> band.start_min],
     end |-> [hour |-> band.end_hour, min |-> band.end_min]]

\* Band.from_dict.
from_dict(d) ==
    Band(d.id, d.setpointType, d.start.hour, d.start.min, d.end.hour, d.end.min)

\* models.DaySchedule.
DaySchedule(day, bands) == [day |-> day, bands |-> bands]

\* models.Calendar.
Calendar(step, schedule) == [step |-> step, schedule |-> schedule]

\* The bands a day has in the snapshots and in the edits: none, one, or two
\* that are listed with the later one first.
BandLists ==
    { << >>,
      << Band(1, "present", 7, 0, 22, 30) >>,
      << Band(2, "present", 13, 30, 20, 30), Band(1, "present", 5, 0, 8, 0) >> }

\* The calendars of zones 1, 2 and 3 in the snapshots: no zone has one; all
\* have the same week; zone 1 has none, zone 2 a calendar with two days only,
\* listed out of order, and zone 3 a week; zone 1 has a calendar without a
\* schedule and zone 2 a week.
CalendarConfigs ==
    LET one == << Band(1, "present", 7, 0, 22, 30) >>
        two == << Band(2, "present", 13, 30, 20, 30), Band(1, "present", 5, 0, 8, 0) >>
        week == Calendar(15, [i \in 1..7 |->
                   DaySchedule(DAYS_OF_WEEK[i],
                               IF i <= 5 THEN two ELSE IF i = 6 THEN one ELSE << >>)])
        some == Calendar(30, << DaySchedule("TUE", two), DaySchedule("MON", one) >>)
    IN  { [z \in ZoneIds |-> NoCalendar],
          [z \in ZoneIds |-> week],
          [z \in ZoneIds |-> IF z = "1" THEN NoCalendar
                             ELSE IF z = "2" THEN some ELSE week],
          [z \in ZoneIds |-> IF z = "1" THEN Calendar(15, << >>)
                             ELSE IF z = "2" THEN week ELSE NoCalendar] }

\* zone.calendar and zone.calendar.schedule.
HasCalendar(zone) ==
    /\ calendars[zone.id] # NoCalendar
    /\ calendars[zone.id].schedule # << >>

\* _get_calendar: the calendar of the first zone of coordinator.data that has
\* one with a schedule.
_get_calendar ==
    LET zones == ZonesOf(coordinator_data) IN
    IF coordinator_data = NoData \/ ~\E i \in 1..Len(zones) : HasCalendar(zones[i])
    THEN NoCalendar
    ELSE calendars[zones[CHOOSE i \in 1..Len(zones) :
                            /\ HasCalendar(zones[i])
                            /\ \A j \in 1..(i - 1) : ~HasCalendar(zones[j])].id]

\* current_by_day[d] after the loop over the canonical schedule: the bands of
\* the last entry for d, as dicts; empty without one.
CurrentByDay(calendar, d) ==
    IF calendar = NoCalendar \/ ~\E i \in 1..Len(calendar.schedule) :
                                      calendar.schedule[i].day = d
    THEN << >>
    ELSE LET last == CHOOSE i \in 1..Len(calendar.schedule) :
                        /\ calendar.schedule[i].day = d
                        /\ \A j \in (i + 1)..Len(calendar.schedule) :
                              calendar.schedule[j].day # d
             bands == calendar.schedule[last].bands
         IN  [k \in 1..Len(bands) |-> to_dict(bands[k])]

\* MonetaScheduleDayText.native_value for the entity of day d: the bands of
\* the first entry for d in the canonical calendar, as dicts in their order;
\* the empty list without a calendar or without an entry.
text_native_value(d) ==
    LET calendar == _get_calendar IN
    IF calendar = NoCalendar \/ ~\E i \in 1..Len(calendar.schedule) :
                                      calendar.schedule[i].day = d
    THEN << >>
    ELSE LET first == CHOOSE i \in 1..Len(calendar.schedule) :
                         /\ calendar.schedule[i].day = d
                         /\ \A j \in 1..(i - 1) : calendar.schedule[j].day # d
             bands == calendar.schedule[first].bands
         IN  [k \in 1..Len(bands) |-> to_dict(bands[k])]

\* A merge that adds the new bands to those the day has.
FullScheduleAppending(calendar, day, new_bands) ==
    [i \in 1..7 |->
        [day |-> DAYS_OF_WEEK[i],
         bands |-> IF DAYS_OF_WEEK[i] = day
                   THEN CurrentByDay(calendar, day) \o new_bands
                   ELSE CurrentByDay(calendar, DAYS_OF_WEEK[i])]]

\* full_schedule: the seven days in order, the edited day with the new bands.
FullSchedule(calendar, day, new_bands) ==
    [i \in 1..7 |->
        [day |-> DAYS_OF_WEEK[i],
         bands |-> IF DAYS_OF_WEEK[i] = day THEN new_bands
                   ELSE CurrentByDay(calendar, DAYS_OF_WEEK[i])]]

\* step = calendar.step if calendar else 30.
ScheduleStep(calendar) == IF calendar = NoCalendar THEN 30 ELSE calendar.step

\* The payload of set_schedule_by_zone_id.
SetSchedulePayload(zone_id, schedule, step) ==
    << [zones |-> << [id |-> zone_id,
                      calendar |-> [step |-> step, schedule |-> schedule]] >>] >>

\* What json.loads makes of the text the user entered: it fails, or gives
\* something that is no list, or a list of band dicts.
ValueInputs ==
    { [kind |-> "invalid", bands |-> << >>], [kind |-> "object", bands |-> << >>] }
    \cup { [kind |-> "list", bands |-> [k \in 1..Len(b) |-> to_dict(b[k])]] :
             b \in BandLists }

\* The edit asked for is the one that ended last, on the same zones.
RepeatsEdit(day, bands) ==
    /\ edit.state \in {"done", "raised"}
    /\ edit.day = day
    /\ edit.bands = bands
    /\ LET zones == ZonesOf(coordinator_data)
       IN  edit.zones = [i \in 1..Len(zones) |-> zones[i].id]

\* async_set_value up to its first await: the text is parsed, the week is
\* rebuilt from the canonical calendar and the first zone's write goes out.
\* Text that is no JSON list, or a coordinator without zones, ends the handler.
async_set_value(t, day, value) ==
    /\ pc[t] = "idle"
    /\ edit.state \in {"none", "done", "raised"}
    /\ IF \/ value.kind # "list"
          \/ coordinator_data = NoData
          \/ ZonesOf(coordinator_data) = << >>
       THEN UNCHANGED vars
       ELSE LET zones == ZonesOf(coordinator_data)
                full_schedule == FullSchedule(_get_calendar, day, value.bands)
                step == ScheduleStep(_get_calendar)
            IN  /\ edit' = [state |-> "calling", day |-> day, bands |-> value.bands,
                            full_schedule |-> full_schedule, step |-> step,
                            zones |-> [i \in 1..Len(zones) |-> zones[i].id],
                            calls |-> << zones[1].id >>,
                            any_success |-> FALSE, refresh |-> FALSE,
                            again |-> RepeatsEdit(day, value.bands)]
                /\ set_schedule_by_zone_id(t, zones[1].id)
                /\ ClientCall(t, "set_schedule_by_zone_id", zones[1].id,
                              << >>, << >>, << >>,
                              SetSchedulePayload(zones[1].id, full_schedule, step))
                /\ UNCHANGED << zone_state, category, entity_zone_id, optimistic_hvac_mode,
                                optimistic_target_temp, optimistic_preset_mode,
                                ha_state, now_ts, calendars, display, server, day_edits >>

\* A write of the edit has returned: `if ok: any_success = True`; an exception
\* out of the client ends the handler.
async_set_value_returned(t) ==
    /\ edit.state = "calling"
    /\ edit' = IF pc[t] = "write_raised" THEN [edit EXCEPT !.state = "raised"]
               ELSE [edit EXCEPT !.any_success = edit.any_success \/ ok[t]]
    /\ write_done(t)
    /\ UNCHANGED << entity_vars, now_ts, calendars, display, server, day_edits >>

\* The loop goes on to the next zone of data.zones.
async_set_value_next(t) ==
    /\ edit.state = "calling"
    /\ Len(edit.calls) < Len(edit.zones)
    /\ LET zone_id == edit.zones[Len(edit.calls) + 1] IN
       /\ edit' = [edit EXCEPT !.calls = Append(edit.calls, zone_id)]
       /\ set_schedule_by_zone_id(t, zone_id)
       /\ ClientCall(t, "set_schedule_by_zone_id", zone_id, << >>, << >>, << >>,
                     SetSchedulePayload(zone_id, edit.full_schedule, edit.step))
    /\ UNCHANGED << zone_state, category, entity_zone_id, optimistic_hvac_mode,
                    optimistic_target_temp, optimistic_preset_mode,
                    ha_state, now_ts, calendars, display, server, day_edits >>

\* After the loop: `if any_success: await coordinator.async_request_refresh()`.
async_set_value_end(t) ==
    /\ edit.state = "calling"
    /\ pc[t] = "idle"
    /\ Len(edit.calls) = Len(edit.zones)
    /\ IF edit.any_success
       THEN /\ edit' = [edit EXCEPT !.state = "refreshing", !.refresh = TRUE]
            /\ async_request_refresh(t)
            /\ UNCHANGED << now_ts, calendars, display, server, day_edits >>
       ELSE /\ edit' = [edit EXCEPT !.state = "done"]
            /\ UNCHANGED << client_vars, entity_vars, now_ts, calendars, display, server, day_edits >>

\* The refresh the edit asked for has ended.
async_set_value_refreshed(t) ==
    /\ edit.state = "refreshing"
    /\ edit' = [edit EXCEPT !.state = "done"]
    /\ _async_update_data(t)
    /\ UNCHANGED << entity_vars, now_ts, calendars, display, server, day_edits >>

\* The coordinator has data (or its first refresh failed) and the zones have
\* their calendars.
ScheduleInit ==
    /\ now = 0
    /\ polling_interval = MIN_POLLING_INTERVAL
    /\ cached_data \in Snapshots \cup {NoData}
    /\ expiration = IF cached_data = NoData THEN NoExpiration ELSE polling_interval
    /\ pending = FALSE
    /\ pc = [t \in Tasks |-> "idle"]
    /\ call_now = [t \in Tasks |-> 0]
    /\ ret = [t \in Tasks |-> NoData]
    /\ fetched = [t \in Tasks |-> "no"]
    /\ ok = [t \in Tasks |-> FALSE]
    /\ joined = [t \in Tasks |-> 0]
    /\ coordinator_data = cached_data
    /\ last_update_success = (cached_data # NoData)
    /\ write_acked = FALSE
    /\ ttl_from = IF cached_data = NoData THEN NoExpiration ELSE 0
    /\ zone_state = [mode |-> "auto", holiday_active |-> FALSE, at_home |-> TRUE,
                     effective_setpoint |-> 18, current_manual_temperature |-> 21]
    /\ category = CATEGORY_HEATING
    /\ entity_zone_id = DEFAULT_ZONE_ID
    /\ EntityCreated
    /\ now_ts = 0
    /\ calendars \in CalendarConfigs
    /\ edit = NoEdit
    /\ display = NoValue
    /\ server = NothingWritten
    /\ day_edits = [h \in Tasks |-> NoDayEdit]

ScheduleNext ==
    \/ \E i \in 1..7, value \in ValueInputs :
          async_set_value(EntityTask, DAYS_OF_WEEK[i], value)
    \/ \E r \in SetpointResponses :
          /\ write_resume(EntityTask, r)
          /\ UNCHANGED << entity_vars, schedule_vars >>
    \/ async_set_value_returned(EntityTask)
    \/ async_set_value_next(EntityTask)
    \/ async_set_value_end(EntityTask)
    \/ \E r \in FullResponses :
          /\ get_state_resume(EntityTask, r)
          /\ UNCHANGED << entity_vars, schedule_vars >>
    \/ async_set_value_refreshed(EntityTask)

ScheduleSpec == ScheduleInit /\ [][ScheduleNext]_vars

\* ------------------------------------------ MonetaFirstZoneScheduleSensor
_DAY_ORDER == << "MON", "TUE", "WED", "THU", "FRI", "SAT", "SUN" >>

\* f"{n:02d}" for the hours and minutes of a day.
Pad2(n) == IF n < 10 THEN "0" \o ToString(n) ELSE ToString(n)

\* One band of a signature: HH:MM-HH:MM.
BandText(b) ==
    Pad2(b.start_hour) \o ":" \o Pad2(b.start_min) \o "-"
    \o Pad2(b.end_hour) \o ":" \o Pad2(b.end_min)

\* (a.start_hour, a.start_min) < (b.start_hour, b.start_min).
StartsBefore(a, b) ==
    \/ a.start_hour < b.start_hour
    \/ a.start_hour = b.start_hour /\ a.start_min < b.start_min

\* sorted(bands, key=lambda b: (b.start_hour, b.start_min)); the sort is
\* stable.
RECURSIVE SortedBands(_)
SortedBands(bands) ==
    IF bands = << >> THEN << >>
    ELSE LET rest == SortedBands(Tail(bands))
         IN  SelectSeq(rest, LAMBDA b : StartsBefore(b, Head(bands)))
             \o << Head(bands) >>
             \o SelectSeq(rest, LAMBDA b : ~StartsBefore(b, Head(bands)))

\* sep.join(parts).
RECURSIVE Join(_, _)
Join(parts, sep) ==
    IF parts = << >> THEN ""
    ELSE IF Len(parts) = 1 THEN parts[1]
    ELSE parts[1] \o sep \o Join(Tail(parts), sep)

\* The band texts of a day, by start time.
SortedTexts(bands) ==
    [k \in 1..Len(bands) |-> BandText(SortedBands(bands)[k])]

_bands_signature(bands) == Join(SortedTexts(bands), ",")

\* The bands a day has in the schedules the sensor shows: those of BandLists,
\* and the two bands also listed with the earlier one first.
DisplayBandLists ==
    BandLists
    \cup { << Band(1, "present", 5, 0, 8, 0), Band(2, "present", 13, 30, 20, 30) >> }

\* signature.replace(",", ", ").  Strings are atomic values here: the
\* signature is taken apart where it was joined and joined again.
ReplaceCommas(signature) ==
    LET texts == CHOOSE ts \in { SortedTexts(b) : b \in DisplayBandLists } :
                    Join(ts, ",") = signature
    IN  Join(texts, ", ")

\* A label that always names the first and the last day.
AlwaysRange(days, signature) ==
    days[1] \o "-" \o days[Len(days)] \o " " \o ReplaceCommas(signature)

_format_group(days, signature) ==
    LET label == IF Len(days) = 1 THEN days[1]
                 ELSE days[1] \o "-" \o days[Len(days)]
    IN  label \o " " \o ReplaceCommas(signature)

\* day_sig.get(day, ""): the signature of the last entry for day.
DaySignature(schedule, day) ==
    IF \E i \in 1..Len(schedule) : schedule[i].day = day
    THEN _bands_signature(
            schedule[CHOOSE i \in 1..Len(schedule) :
                        /\ schedule[i].day = day
                        /\ \A j \in (i + 1)..Len(schedule) :
                              schedule[j].day # day].bands)
    ELSE ""

\* The loop over _DAY_ORDER from day i on, and the append after it.
RECURSIVE GroupDays(_, _, _, _, _)
GroupDays(schedule, i, groups, current_days, current_sig) ==
    LET closed == IF current_days # << >>
                  THEN Append(groups, [days |-> current_days, sig |-> current_sig])
                  ELSE groups
    IN  IF i > 7 THEN closed
        ELSE LET sig == DaySignature(schedule, _DAY_ORDER[i]) IN
             IF sig = "" THEN GroupDays(schedule, i + 1, closed, << >>, NoValue)
             ELSE IF sig = current_sig
                  THEN GroupDays(schedule, i + 1, groups,
                                 Append(current_days, _DAY_ORDER[i]), current_sig)
                  ELSE GroupDays(schedule, i + 1, closed, << _DAY_ORDER[i] >>, sig)

_build_schedule_value(schedule) ==
    LET groups == GroupDays(schedule, 1, << >>, << >>, NoValue) IN
    IF groups = << >> THEN "No schedule available"
    ELSE Join([k \in 1..Len(groups) |->
                  _format_group(groups[k].days, groups[k].sig)], " | ")

\* The sensor's value: the schedule of the first zone of coordinator.data.
native_value ==
    LET zones == ZonesOf(coordinator_data) IN
    IF coordinator_data = NoData \/ zones = << >> THEN "No schedule available"
    ELSE IF \/ calendars[zones[1].id] = NoCalendar
            \/ calendars[zones[1].id].schedule = << >>
         THEN "No schedule available"
         ELSE _build_schedule_value(calendars[zones[1].id].schedule)

\* Every 7-day schedule over DisplayBandLists.
WeekCalendars ==
    { Calendar(30, [i \in 1..7 |-> DaySchedule(DAYS_OF_WEEK[i], f[i])]) :
         f \in [1..7 -> DisplayBandLists] }

\* The coordinator has the winter snapshot; its first zone has any week, or
\* no calendar.
DisplayInit ==
    /\ now = 0
    /\ polling_interval = MIN_POLLING_INTERVAL
    /\ cached_data = "winter"
    /\ expiration = polling_interval
    /\ pending = FALSE
    /\ pc = [t \in Tasks |-> "idle"]
    /\ call_now = [t \in Tasks |-> 0]
    /\ ret = [t \in Tasks |-> NoData]
    /\ fetched = [t \in Tasks |-> "no"]
    /\ ok = [t \in Tasks |-> FALSE]
    /\ joined = [t \in Tasks |-> 0]
    /\ coordinator_data = cached_data
    /\ last_update_success = TRUE
    /\ write_acked = FALSE
    /\ ttl_from = 0
    /\ zone_state = [mode |-> "auto", holiday_active |-> FALSE, at_home |-> TRUE,
                     effective_setpoint |-> 18, current_manual_temperature |-> 21]
    /\ category = CATEGORY_HEATING
    /\ entity_zone_id = DEFAULT_ZONE_ID
    /\ EntityCreated
    /\ now_ts = 0
    /\ \E calendar \in WeekCalendars \cup {NoCalendar} :
          calendars = [z \in ZoneIds |-> IF z = "1" THEN calendar ELSE NoCalendar]
    /\ edit = NoEdit
    /\ display = NoValue
    /\ server = NothingWritten
    /\ day_edits = [h \in Tasks |-> NoDayEdit]

\* The sensor writes its state.
async_write_ha_state ==
    /\ display' = native_value
    /\ UNCHANGED << client_vars, entity_vars, now_ts, calendars, edit, server,
                    day_edits >>

DisplayNext == async_write_ha_state

DisplaySpec == DisplayInit /\ [][DisplayNext]_vars

\* ------------------------------------ two day entities edited at once
\* The days of the two entities that are edited.
EditDays == {"MON", "TUE"}

\* The band list the user enters, parsed: a band no calendar has.
EditBandLists ==
    { << to_dict(Band(1, "absent", 1, 0, 2, 0)) >> }

\* Both handlers read the same coordinator.data: none has ended or asked for
\* its refresh.
SameSnapshot == \A h \in Tasks : day_edits[h].state \in {"idle", "calling"}

\* async_set_value of the entity of `day`, run by task h, up to its first
\* await: the week is rebuilt from the canonical calendar of coordinator.data
\* and the first zone's write goes out.
day_edit_start(h, day, bands) ==
    /\ pc[h] = "idle"
    /\ day_edits[h].state = "idle"
    /\ SameSnapshot
    /\ coordinator_data # NoData
    /\ ZonesOf(coordinator_data) # << >>
    /\ LET zones == ZonesOf(coordinator_data) IN
       day_edits' = [day_edits EXCEPT ![h] =
          [state |-> "calling", day |-> day, bands |-> bands,
           full_schedule |-> FullSchedule(_get_calendar, day, bands),
           zones |-> [i \in 1..Len(zones) |-> zones[i].id],
           sent |-> 1, any_success |-> FALSE, all_success |-> TRUE]]
    /\ set_schedule_by_zone_id(h, ZonesOf(coordinator_data)[1].id)
    /\ UNCHANGED << entity_vars, now_ts, calendars, edit, display, server >>

\* The POST of the handler's write is answered with r: a write the client
\* reports as done has replaced the zone's whole schedule on the server.
day_edit_answered(h, r) ==
    /\ day_edits[h].state = "calling"
    /\ write_resume(h, r)
    /\ LET res == _set_request(r)
           zone_id == day_edits[h].zones[day_edits[h].sent]
       IN  server' = IF ~res.raised /\ res.value
                     THEN [server EXCEPT ![zone_id] = day_edits[h].full_schedule]
                     ELSE server
    /\ UNCHANGED << entity_vars, now_ts, calendars, edit, display, day_edits >>

\* The write has returned to the handler: `if ok: any_success = True`; an
\* exception out of the client ends the handler.
day_edit_returned(h) ==
    /\ day_edits[h].state = "calling"
    /\ pc[h] \in {"written", "write_raised"}
    /\ day_edits' = [day_edits EXCEPT ![h] =
          IF pc[h] = "write_raised"
          THEN [@ EXCEPT !.state = "raised", !.all_success = FALSE]
          ELSE [@ EXCEPT !.any_success = @ \/ ok[h],
                         !.all_success = @ /\ ok[h]]]
    /\ write_done(h)
    /\ UNCHANGED << entity_vars, now_ts, calendars, edit, display, server >>

\* The loop goes on to the next zone of data.zones.
day_edit_next(h) ==
    /\ day_edits[h].state = "calling"
    /\ pc[h] = "idle"
    /\ day_edits[h].sent < Len(day_edits[h].zones)
    /\ day_edits' = [day_edits EXCEPT ![h].sent = @ + 1]
    /\ set_schedule_by_zone_id(h, day_edits[h].zones[day_edits[h].sent + 1])
    /\ UNCHANGED << entity_vars, now_ts, calendars, edit, display, server >>

\* After the loop: `if any_success: await coordinator.async_request_refresh()`.
day_edit_end(h) ==
    /\ day_edits[h].state = "calling"
    /\ pc[h] = "idle"
    /\ day_edits[h].sent = Len(day_edits[h].zones)
    /\ IF day_edits[h].any_success
       THEN /\ day_edits' = [day_edits EXCEPT ![h].state = "refreshing"]
            /\ get_state_call(h)
       ELSE /\ day_edits' = [day_edits EXCEPT ![h].state = "done"]
            /\ UNCHANGED client_vars
    /\ UNCHANGED << entity_vars, now_ts, calendars, edit, display, server >>

\* The POST of the refresh is answered with r.
day_edit_fetched(h, r) ==
    /\ day_edits[h].state = "refreshing"
    /\ get_state_resume(h, r)
    /\ UNCHANGED << entity_vars, schedule_vars >>

\* The refresh the edit asked for has ended.
day_edit_refreshed(h) ==
    /\ day_edits[h].state = "refreshing"
    /\ day_edits' = [day_edits EXCEPT ![h].state = "done"]
    /\ _async_update_data(h)
    /\ UNCHANGED << entity_vars, now_ts, calendars, edit, display, server >>

\* The coordinator has a snapshot and the zones have their calendars.
EditsInit ==
    /\ now = 0
    /\ polling_interval = MIN_POLLING_INTERVAL
    /\ cached_data \in ServerSnapshots
    /\ expiration = polling_interval
    /\ pending = FALSE
    /\ pc = [t \in Tasks |-> "idle"]
    /\ call_now = [t \in Tasks |-> 0]
    /\ ret = [t \in Tasks |-> NoData]
    /\ fetched = [t \in Tasks |-> "no"]
    /\ ok = [t \in Tasks |-> FALSE]
    /\ joined = [t \in Tasks |-> 0]
    /\ coordinator_data = cached_data
    /\ last_update_success = TRUE
    /\ write_acked = FALSE
    /\ ttl_from = 0
    /\ zone_state = [mode |-> "auto", holiday_active |-> FALSE, at_home |-> TRUE,
                     effective_setpoint |-> 18, current_manual_temperature |-> 21]
    /\ category = CATEGORY_HEATING
    /\ entity_zone_id = DEFAULT_ZONE_ID
    /\ EntityCreated
    /\ now_ts = 0
    /\ calendars \in CalendarConfigs
    /\ edit = NoEdit
    /\ display = NoValue
    /\ server = NothingWritten
    /\ day_edits = [h \in Tasks |-> NoDayEdit]

EditsNext ==
    \/ \E h \in Tasks, day \in EditDays, bands \in EditBandLists :
          day_edit_start(h, day, bands)
    \/ \E h \in Tasks, r \in SetpointResponses : day_edit_answered(h, r)
    \/ \E h \in Tasks : day_edit_returned(h)
    \/ \E h \in Tasks : day_edit_next(h)
    \/ \E h \in Tasks : day_edit_end(h)
    \/ \E h \in Tasks, r \in FullResponses : day_edit_fetched(h, r)
    \/ \E h \in Tasks : day_edit_refreshed(h)

EditsSpec == EditsInit /\ [][EditsNext]_vars

\* ------------------------------------------------------------------ claims
\* C1: once a write operation has returned success, the very next get_state()
\* call performs a fresh network fetch, whatever else is in flight.
C1_NextReadFetches ==
    [][\A t \in Tasks :
          (write_acked /\ get_state_call(t)) => pc'[t] = "fetching"]_vars

\* C2: at most one full-state fetch is in flight, the in-flight flag is set
\* exactly while it is, and a get_state() call that starts while a fetch is in
\* flight returns the cached snapshot without issuing a request.
C2_SingleFetchInFlight ==
    /\ [](/\ Cardinality(FetchesInFlight) <= 1
          /\ pending <=> FetchesInFlight # {})
    /\ [][\A t \in Tasks :
            (FetchesInFlight # {} /\ get_state_call(t)) =>
                /\ pc'[t] = "got_state"
                /\ ret'[t] = cached_data
                /\ FetchesInFlight' = FetchesInFlight]_vars

C2_Witness ==
    \E a, b \in Tasks :
        /\ pc[a] = "fetching"
        /\ pc[b] = "got_state"
        /\ joined[b] = a
        /\ cached_data # NoData

\* C3 as stated: two get_state() calls issued before the first one's request
\* returns receive the same snapshot.
C3_BothReceiveSame ==
    \A a, b \in Tasks :
        (joined[b] = a /\ pc[a] = "got_state") => ret[b] = ret[a]

\* C3 as amended: the second call issues no request and receives at once the
\* snapshot cached at that moment (None during the very first fetch); the
\* first call receives the fetched snapshot when its fetch succeeds and that
\* same previous snapshot when it fails.
C3_CoalescedCallGetsPrevious ==
    /\ [](\A b \in Tasks : joined[b] # 0 =>
            /\ pc[b] = "got_state"
            /\ fetched[b] = "no"
            /\ pc[joined[b]] = "fetching" =>
                  (ret[b] = cached_data /\ FetchesInFlight = {joined[b]})
            /\ (pc[joined[b]] = "got_state" /\ fetched[joined[b]] = "kept") =>
                  ret[joined[b]] = ret[b])
    /\ [][\A a \in Tasks, r \in FullResponses :
            (get_state_resume(a, r) /\ fetched'[a] = "stored") =>
                ret'[a] = r.model]_vars

C3_Witness ==
    \E a, b \in Tasks :
        /\ joined[b] = a
        /\ pc[a] = "got_state"
        /\ fetched[a] = "stored"
        /\ ret[b] = NoData
        /\ ret[a] # NoData

\* C4: get_state() answers from the cache exactly when a fetch is in flight or
\* an expiration is set and the time is strictly before it; otherwise it
\* issues one fetch.
C4_CacheHitExactly ==
    [][\A t \in Tasks : get_state_call(t) =>
          IF pending \/ (expiration # NoExpiration /\ now < expiration)
          THEN /\ pc'[t] = "got_state"
               /\ ret'[t] = cached_data
               /\ FetchesInFlight' = FetchesInFlight
          ELSE /\ pc'[t] = "fetching"
               /\ FetchesInFlight' = FetchesInFlight \cup {t}
               /\ Cardinality(FetchesInFlight') = 1]_vars

\* A fetch that started at the very minute the cache expired.
C4_Witness ==
    \E t \in Tasks :
        /\ pc[t] = "fetching"
        /\ expiration # NoExpiration
        /\ call_now[t] = expiration

\* C5: after a successful fetch that started at T, with no write and no force
\* refresh since, a get_state() call before T + P answers from the cache, and
\* one at or after T + P issues a fetch (unless the fetch of an earlier call at
\* or after T + P is still in flight).
C5_TtlRoundTrip ==
    [][\A t \in Tasks :
          (ttl_from # NoExpiration /\ get_state_call(t)) =>
              IF now < ttl_from + polling_interval
              THEN /\ pc'[t] = "got_state"
                   /\ ret'[t] = cached_data
                   /\ FetchesInFlight' = FetchesInFlight
              ELSE \/ pc'[t] = "fetching"
                   \/ \E u \in FetchesInFlight :
                         call_now[u] >= ttl_from + polling_interval]_vars

\* A fetch issued because the TTL of the last successful fetch ran out.
C5_Witness ==
    \E t \in Tasks :
        /\ pc[t] = "fetching"
        /\ ttl_from # NoExpiration
        /\ call_now[t] >= ttl_from + polling_interval
        /\ cached_data # NoData

\* Fetches that fail: the transport raised, the status is not 200, the body is
\* not JSON, is null or an empty list, its first element is no object or
\* carries a truthy error, or the model cannot be built from it.
FailedFetches ==
    {TransportError, HttpError}
    \cup { Body(f) : f \in PlainForms }
    \cup { Response("ok200", "list_of_object", TRUE, "missing", DefaultModel),
           Response("ok200", "list_of_object", FALSE, "missing", "unparseable") }

\* Answers to a full-state fetch the protocol counts as failed: empty, not an
\* array, or a first element with a truthy error.
FailedFetchEnvelopes ==
    { Body("null"), Body("empty_list") }
    \cup { Response("ok200", "object", FALSE, "missing", m) : m \in Snapshots }
    \cup { Response("ok200", f, TRUE, "missing", DefaultModel) : f \in ObjectForms }

\* C6: get_state() never raises; when its fetch ends in a transport error, a
\* non-200 status, or a malformed or error-flagged body, it returns the
\* snapshot cached before and leaves the cached snapshot and the expiration as
\* they were.
C6_FetchFailsSoft ==
    [][\A t \in Tasks, r \in FailedFetches \cup FailedFetchEnvelopes :
            get_state_resume(t, r) =>
                /\ pc'[t] = "got_state"
                /\ ret'[t] = cached_data
                /\ cached_data' = cached_data
                /\ expiration' = expiration
                /\ ~pending']_vars

\* C7: after a refresh whose fetch failed, every zone-scoped entity reports
\* unavailable.
C7_FailedRefreshUnavailable ==
    [][\A t \in Tasks :
          (_async_update_data(t) /\ fetched[t] = "kept") =>
              \A z \in ZoneIds : ~Available(z)']_vars

\* Failures of a write: the body is not JSON, the first list element carries
\* the error flag, the status is not 200, the transport failed.
FailedWrites ==
    {TransportError, HttpError, Body("not_json")}
    \cup { Response("ok200", "list_of_object", TRUE, s, DefaultModel) :
             s \in {"false", "missing"} }

\* C8: on each of these failures the write operation returns False and no
\* exception escapes.
C8_WriteFailsSoft ==
    [][\A t \in Tasks, r \in FailedWrites :
          write_resume(t, r) => (pc'[t] = "written" /\ ~ok'[t])]_vars

\* Answers to a write the protocol counts as failed: empty, not an array, or a
\* first element with a truthy error or without the success field.
FailedWriteEnvelopes ==
    { Body("null"), Body("empty_list") }
    \cup { Response("ok200", "object", e, su, DefaultModel) :
             e \in BOOLEAN, su \in {"true", "false", "missing"} }
    \cup { Response("ok200", "list_of_object", TRUE, su, DefaultModel) :
             su \in {"true", "false", "missing"} }
    \cup { Response("ok200", "list_of_object", FALSE, "missing", DefaultModel) }

\* C9: a write operation that receives such a response returns False, and a
\* full-state fetch that receives one does not replace the cached snapshot.
C9_EnvelopeFailureIsFailure ==
    [][/\ \A t \in Tasks, r \in FailedWriteEnvelopes :
            write_resume(t, r) => (pc'[t] = "written" /\ ~ok'[t])
       /\ \A t \in Tasks, r \in FailedFetchEnvelopes :
            get_state_resume(t, r) =>
                (cached_data' = cached_data /\ fetched'[t] = "kept")]_vars

\* C10: a write operation that returns False leaves the cached snapshot, the
\* expiration and the in-flight flag as they were.
C10_FailedWriteKeepsCache ==
    [][\A t \in Tasks :
          (pc[t] \in {"idle", "writing"} /\ pc'[t] = "written" /\ ~ok'[t]) =>
              /\ cached_data' = cached_data
              /\ expiration' = expiration
              /\ pending' = pending]_vars

\* A write operation returned False while the cache was still valid.
C10_Witness ==
    \E t \in Tasks :
        /\ pc[t] = "written"
        /\ ~ok[t]
        /\ expiration # NoExpiration
        /\ now < expiration

\* Answers get_state builds a snapshot from: HTTP 200 with a JSON array whose
\* first element is an object without a truthy error, or with a JSON object.
AcceptedFetches ==
    { Response("ok200", "list_of_object", FALSE, "missing", m) : m \in Snapshots }
    \cup { Response("ok200", "object", e, "missing", m) :
             e \in BOOLEAN, m \in Snapshots }

Requested(type, present_temperature, absent_temperature) ==
    IF type = "present" THEN present_temperature ELSE absent_temperature

\* A value was given for the type and it is not the zone's cached value.
Differs(zone, type, present_temperature, absent_temperature) ==
    LET v == Requested(type, present_temperature, absent_temperature) IN
    v # << >> /\ v # get_setpoint_temperature(zone, type)

\* C12: set_present_absent_temperature puts into its payload exactly the
\* requested setpoints whose value differs from the zone's cached value of that
\* type, each once and with the requested value; when no requested setpoint
\* differs it issues no request, returns true and leaves the expiration alone.
C12_PayloadIsTheChangedSetpoints ==
    [][LET zone_id == command'.zone_id
           p == command'.present_temperature
           a == command'.absent_temperature
       IN  (/\ pc[EntityTask] = "idle"
            /\ command'.op = "set_present_absent_temperature"
            /\ get_zone_by_id(cached_data, zone_id) # << >>
            /\ call_set_present_absent_temperature(EntityTask, zone_id, p, a))
           => LET zone == get_zone_by_id(cached_data, zone_id)[1]
                  changed == { type \in {"present", "absent"} :
                                 Differs(zone, type, p, a) }
              IN  IF changed = {}
                  THEN /\ pc'[EntityTask] = "written"
                       /\ ok'[EntityTask]
                       /\ payload' = NoPayload
                       /\ expiration' = expiration
                  ELSE /\ pc'[EntityTask] = "writing"
                       /\ Len(payload') = 1
                       /\ Len(payload'[1].zones) = 1
                       /\ payload'[1].zones[1].id = zone_id
                       /\ LET sent == payload'[1].zones[1].setpoints IN
                          /\ Len(sent) = Cardinality(changed)
                          /\ \A type \in changed :
                                \E i \in 1..Len(sent) :
                                    sent[i] = Setpoint(type, Requested(type, p, a)[1])
      ]_vars

\* A call that was given both setpoints and sent only the one that differs.
C12_Witness ==
    /\ command # NoCommand
    /\ command.op = "set_present_absent_temperature"
    /\ command.present_temperature # << >>
    /\ command.absent_temperature # << >>
    /\ pc[EntityTask] = "writing"
    /\ Len(payload[1].zones[1].setpoints) = 1

\* set_present_absent_temperature is called with the arguments of the call
\* before it, no refresh between the two: the cached zone is the same.
SecondIdenticalCall ==
    /\ pc[EntityTask] = "idle"
    /\ command'.op = "set_present_absent_temperature"
    /\ command'.again
    /\ get_zone_by_id(cached_data, command'.zone_id) # << >>
    /\ call_set_present_absent_temperature(EntityTask, command'.zone_id,
                                           command'.present_temperature,
                                           command'.absent_temperature)

\* C13 as stated: the second of two identical calls in a row with the same
\* cached zone state is a no-op that returns success.
C13_SecondCallIsNoOp ==
    [][SecondIdenticalCall
          => /\ pc'[EntityTask] = "written"
             /\ ok'[EntityTask]
             /\ payload' = NoPayload]_vars

\* C13, amended: the second of two identical calls in a row with the same
\* cached zone state does what the first did.  If the first sent a write, the
\* second sends the same payload again, since a write does not update the
\* cache; the second is a no-op returning success exactly when the first was.
C13_SecondCallRepeatsFirst ==
    [][SecondIdenticalCall
          => /\ payload' = payload
             /\ payload = NoPayload
                   => (pc'[EntityTask] = "written" /\ ok'[EntityTask])
             /\ payload # NoPayload => pc'[EntityTask] = "writing"]_vars

\* The first call was acknowledged by the server; the second is in flight with
\* the payload of the first.
C13_Witness ==
    /\ command.op = "set_present_absent_temperature"
    /\ command.again
    /\ write_acked
    /\ pc[EntityTask] = "writing"
    /\ payload # NoPayload

\* MonetaPresenceSensor, MonetaHolidaySensor and MonetaPartySensor do not
\* override `available`: they keep CoordinatorEntity's, the success of the last
\* refresh.
BinarySensorAvailable == last_update_success

\* get_presence: atHome of the default zone, False when the zone is missing.
get_presence ==
    LET zone == get_zone_by_id(cached_data, DEFAULT_ZONE_ID) IN
    IF zone = << >> THEN FALSE ELSE zone_state.at_home

\* MonetaPresenceSensor.is_on.
PresenceIsOn == get_presence

\* C14: a zone-scoped command called with a zone id that is not in the cached
\* snapshot returns False and issues no request.
C14_MissingZoneIsRefused ==
    [][\A t \in Tasks, zone_id \in ZoneIds :
            (/\ get_zone_by_id(cached_data, zone_id) = << >>
             /\ \/ \E temperature \in ManualTemperatures :
                      set_manual_temperature(t, zone_id, temperature)
                \/ set_schedule_by_zone_id(t, zone_id)
                \/ set_party(t, zone_id)
                \/ \E present_temperature \in TemperatureInputs,
                      absent_temperature \in TemperatureInputs :
                      set_present_absent_temperature(t, zone_id, present_temperature,
                                                     absent_temperature))
            => (pc'[t] = "written" /\ ~ok'[t])]_vars

\* C15: an entity that represents a zone is unavailable whenever its zone id is
\* absent from the latest successful snapshot: the climate, temperature and
\* setpoint entities of every zone, and the binary sensors of zone 1, which
\* would otherwise show False for a zone that is not there.
C15_MissingZoneUnavailable ==
    /\ \A zone_id \in ZoneIds :
          (coordinator_data # NoData /\ get_zone_by_id(coordinator_data, zone_id) = << >>)
              => ~Available(zone_id)
    /\ (/\ coordinator_data # NoData
        /\ coordinator_data = cached_data
        /\ get_zone_by_id(cached_data, DEFAULT_ZONE_ID) = << >>)
          => ~BinarySensorAvailable

\* The entity has a zone and none of its three optimistic overrides is pending.
NoOverridePending ==
    /\ _zone # << >>
    /\ optimistic_hvac_mode = NoValue
    /\ optimistic_target_temp = << >>
    /\ optimistic_preset_mode = _SENTINEL_PRESET

\* C16: with no optimistic override pending, the operating mode of a zone is
\* OFF for zone.mode off in every season, HEAT for manual in winter, COOL for
\* manual in summer, and AUTO for auto, party and holiday; the state written
\* last shows it.  The entity of the first integration, which has no
\* overrides, shows the same mode.
C16_OperatingModeOfZoneMode ==
    NoOverridePending =>
        LET mode == zone_state.mode
            summer == coordinator_data = "summer"
            winter == coordinator_data = "winter"
        IN  /\ mode = "off" => hvac_mode = "off"
            /\ (mode = "manual" /\ winter) => hvac_mode = "heat"
            /\ (mode = "manual" /\ summer) => hvac_mode = "cool"
            /\ mode \in {"auto", "party", "holiday"} => hvac_mode = "auto"
            /\ moneta_thermostat_hvac_mode = hvac_mode
            /\ ha_state # NoState => ha_state.hvac_mode = hvac_mode

\* A manual zone of the summer unit is shown as COOL after a refresh.
C16_Witness ==
    /\ NoOverridePending
    /\ zone_state.mode = "manual"
    /\ coordinator_data = "summer"
    /\ ha_state # NoState
    /\ ha_state.hvac_mode = "cool"

\* C17: with no optimistic override pending, the preset of a zone is the away
\* preset whenever holiday_active is true, whatever zone.mode is; otherwise the
\* schedule preset for auto, the boost preset for party and none for off and
\* manual; the state written last shows it.
C17_PresetOfZone ==
    NoOverridePending =>
        LET mode == zone_state.mode IN
        /\ zone_state.holiday_active => preset_mode = PRESET_AWAY
        /\ ~zone_state.holiday_active =>
              /\ mode = "auto" => preset_mode = PRESET_HOME
              /\ mode = "party" => preset_mode = PRESET_BOOST
              /\ mode \in {"off", "manual"} => preset_mode = NoValue
        /\ ha_state # NoState => ha_state.preset_mode = preset_mode

\* A manual zone with the holiday flag set is shown with the away preset after
\* a refresh.
C17_Witness ==
    /\ NoOverridePending
    /\ zone_state.mode = "manual"
    /\ zone_state.holiday_active
    /\ ha_state # NoState
    /\ ha_state.preset_mode = PRESET_AWAY

\* C18: with no optimistic override pending, the target temperature of a zone
\* is its effective_setpoint when the operating mode is AUTO and its manual
\* setpoint, current_manual_temperature, when the operating mode is HEAT or
\* COOL; in both integrations.
C18_TargetOfOperatingMode ==
    NoOverridePending =>
        /\ hvac_mode = "auto" =>
              /\ target_temperature = << zone_state.effective_setpoint >>
              /\ moneta_thermostat_target_temperature
                    = << zone_state.effective_setpoint >>
        /\ hvac_mode \in {"heat", "cool"} =>
              /\ target_temperature = << zone_state.current_manual_temperature >>
              /\ moneta_thermostat_target_temperature
                    = << zone_state.current_manual_temperature >>

\* The call of the step just taken went to set_present_absent_temperature for
\* the entity's zone, with a value for the setpoint of the zone's presence only,
\* within that setpoint's bounds; a payload, if one was sent, carries that
\* setpoint alone.
RoutedToPresenceSetpoint ==
    LET limits == LimitsOf(coordinator_data)
        type == IF zone_state.at_home THEN "present" ELSE "absent"
        lo == IF zone_state.at_home THEN limits.present_min_temp
              ELSE limits.absent_min_temp
        hi == IF zone_state.at_home THEN limits.present_max_temp
              ELSE limits.absent_max_temp
        given == IF zone_state.at_home THEN command'.present_temperature
                 ELSE command'.absent_temperature
        other == IF zone_state.at_home THEN command'.absent_temperature
                 ELSE command'.present_temperature
    IN  /\ command'.op = "set_present_absent_temperature"
        /\ command'.zone_id = entity_zone_id
        /\ other = << >>
        /\ given # << >>
        /\ lo <= given[1] /\ given[1] <= hi
        /\ payload' # NoPayload =>
              \A i \in 1..Len(payload'[1].zones[1].setpoints) :
                  payload'[1].zones[1].setpoints[i] = Setpoint(type, given[1])

\* A user writes a temperature to the entity of moneta_thermostat_evo, whose
\* operating mode is AUTO.
EvoWriteInAuto ==
    /\ pc[EntityTask] = "idle"
    /\ hvac_mode = "auto"
    /\ \E temperature \in UserTemperatures :
          async_set_temperature(EntityTask, temperature)

\* The same for the entity of moneta_thermostat.
FirstWriteInAuto ==
    /\ pc[EntityTask] = "idle"
    /\ moneta_thermostat_hvac_mode = "auto"
    /\ \E temperature \in UserTemperatures :
          moneta_thermostat_async_set_temperature(EntityTask, temperature)

\* C19 as stated: a temperature written to a zone whose operating mode is AUTO
\* goes to set_present_absent_temperature, with only the present setpoint when
\* the zone is at_home and only the absent setpoint when it is not, and the
\* value lies within that setpoint's bounds.
C19_AutoWriteIsRouted ==
    [][(EvoWriteInAuto \/ FirstWriteInAuto) => RoutedToPresenceSetpoint]_vars

\* C19, amended: the entity of moneta_thermostat_evo routes the write as
\* stated; the entity of moneta_thermostat drops a temperature written in AUTO
\* without a call into the client.
C19_AutoWriteIsRoutedByEvo ==
    [][/\ EvoWriteInAuto => RoutedToPresenceSetpoint
       /\ FirstWriteInAuto =>
             /\ command' = NoCommand
             /\ payload' = NoPayload
             /\ UNCHANGED client_vars]_vars

\* An away zone in AUTO: 23 was asked for and the absent setpoint goes out at
\* its upper bound, 20.
C19_Witness ==
    /\ command.op = "set_present_absent_temperature"
    /\ optimistic_target_temp = <<23>>
    /\ ~zone_state.at_home
    /\ command.present_temperature = << >>
    /\ command.absent_temperature = <<20>>
    /\ pc[EntityTask] = "writing"
    /\ payload # NoPayload

\* The value that went to set_manual_temperature in the step just taken.
SentManually(temperature) ==
    /\ command'.op = "set_manual_temperature"
    /\ command'.zone_id = entity_zone_id
    /\ command'.temperature = <<temperature>>
    /\ payload' # NoPayload => payload' = ManualPayload(entity_zone_id, temperature)

\* C20 as stated: a temperature written to a zone whose operating mode is HEAT
\* or COOL is sent through set_manual_temperature as it is if it lies within
\* [present_min_temp, present_max_temp], and as present_min_temp if it is out
\* of range on either side.
C20_ManualWriteFallsBackToMinimum ==
    [][\A temperature \in UserTemperatures :
          LET limits == LimitsOf(coordinator_data)
              in_range == /\ limits.present_min_temp <= temperature
                          /\ temperature <= limits.present_max_temp
          IN  (/\ pc[EntityTask] = "idle"
               /\ \/ /\ hvac_mode \in {"heat", "cool"}
                     /\ async_set_temperature(EntityTask, temperature)
                  \/ /\ moneta_thermostat_hvac_mode \in {"heat", "cool"}
                     /\ moneta_thermostat_async_set_temperature(EntityTask,
                                                                temperature))
              => SentManually(IF in_range THEN temperature
                              ELSE limits.present_min_temp)]_vars

\* C20, amended: the entity of moneta_thermostat sends the requested value if
\* it is in range and present_min_temp otherwise; the entity of
\* moneta_thermostat_evo sends the requested value if it is in range,
\* present_min_temp if it is below and present_max_temp if it is above.
C20_ManualWriteIsBounded ==
    [][\A temperature \in UserTemperatures :
          LET limits == LimitsOf(coordinator_data)
              lo == limits.present_min_temp
              hi == limits.present_max_temp
          IN  /\ pc[EntityTask] = "idle" =>
                /\ (/\ hvac_mode \in {"heat", "cool"}
                    /\ async_set_temperature(EntityTask, temperature))
                   => SentManually(IF temperature < lo THEN lo
                                   ELSE IF temperature > hi THEN hi
                                   ELSE temperature)
                /\ (/\ moneta_thermostat_hvac_mode \in {"heat", "cool"}
                    /\ moneta_thermostat_async_set_temperature(EntityTask,
                                                               temperature))
                   => SentManually(IF temperature < lo \/ temperature > hi
                                   THEN lo ELSE temperature)]_vars

\* Both cases above the range: the entity of moneta_thermostat_evo was asked
\* for 23 and sends 22, or the entity of moneta_thermostat was and sends 18.
C20_Witness ==
    /\ command.op = "set_manual_temperature"
    /\ optimistic_target_temp = <<23>>
    /\ hvac_mode \in {"heat", "cool"}
    /\ command.temperature = <<22>>
    /\ pc[EntityTask] = "writing"

\* C28: pressing force refresh clears the expiration before the refresh runs,
\* and the get_state() call of that refresh performs a network fetch, whatever
\* other get_state() calls do in between.
C28_ForcedRefreshFetches ==
    [][\A t \in Tasks :
          /\ async_press(t) => expiration' = NoExpiration
          /\ (pc[t] = "pressed" /\ get_state_call(t)) => pc'[t] = "fetching"]_vars

\* The refresh of the entity's coordinator ends: its result is delivered to the
\* listeners.
StateDelivered == pc[EntityTask] = "got_state" /\ pc'[EntityTask] = "idle"

\* C30: whenever the coordinator delivers a state to the climate entity, all
\* three optimistic overrides are cleared, and right afterwards the operating
\* mode, the preset and the target temperature, as read and as written to the
\* host, are those of the delivered snapshot alone, whatever was commanded
\* before.
C30_DeliveryClearsOverrides ==
    [][StateDelivered =>
          /\ optimistic_hvac_mode' = NoValue
          /\ optimistic_preset_mode' = _SENTINEL_PRESET
          /\ optimistic_target_temp' = << >>
          /\ hvac_mode' = moneta_thermostat_hvac_mode'
          /\ target_temperature' = moneta_thermostat_target_temperature'
          /\ preset_mode' = IF _zone' = << >> THEN NoValue
                            ELSE IF zone_state.holiday_active THEN PRESET_AWAY
                            ELSE _MODE_TO_PRESET(zone_state.mode)
          /\ ha_state'.hvac_mode = hvac_mode'
          /\ ha_state'.preset_mode = preset_mode'
          /\ ha_state'.temperature = target_temperature']_vars

\* A command was acknowledged, the fetch of the refresh after it failed, and
\* the state was delivered: no override is left.
C30_Witness ==
    /\ expiration = NoExpiration
    /\ pc[EntityTask] = "idle"
    /\ command = NoCommand
    /\ NoOverridePending
    /\ ha_state # NoState
    /\ ha_state.hvac_mode = moneta_thermostat_hvac_mode

\* The step in which the client operation op is called.
ClientOpCalled(op) ==
    /\ pc[EntityTask] = "idle"
    /\ pc'[EntityTask] # "idle"
    /\ command'.op = op

\* C25: set_off() on a cached snapshot sends a payload with exactly one entry
\* per zone of the snapshot, in order, each with mode off, expiration 0 and a
\* single setpoint of type effective at the zone's current temperature plus 1;
\* with no cached snapshot it returns false without a network call.
C25_SetOffPayload ==
    [][ClientOpCalled("set_off") =>
          IF cached_data = NoData
          THEN /\ pc'[EntityTask] = "written"
               /\ ~ok'[EntityTask]
               /\ payload' = NoPayload
          ELSE /\ pc'[EntityTask] = "writing"
               /\ DOMAIN payload'[1] = {"zones"}
               /\ Len(payload'[1].zones) = Len(ZonesOf(cached_data))
               /\ \A i \in 1..Len(ZonesOf(cached_data)) :
                     LET entry == payload'[1].zones[i]
                         zone == ZonesOf(cached_data)[i]
                     IN  /\ DOMAIN entry = {"id", "mode", "expiration", "setpoints"}
                         /\ entry.id = zone.id
                         /\ entry.mode = "off"
                         /\ entry.expiration = 0
                         /\ Len(entry.setpoints) = 1
                         /\ entry.setpoints[1].type = "effective"
                         /\ entry.setpoints[1].temperature = zone.temperature + 1]_vars

\* set_off has posted an entry for each of the three zones of the winter unit.
C25_Witness ==
    /\ command.op = "set_off"
    /\ pc[EntityTask] = "writing"
    /\ cached_data = "winter"
    /\ Len(payload[1].zones) = 3
    /\ payload[1].zones[2].setpoints[1].temperature = 22

\* The cached setpoint of a zone, or the default when the zone has none.
CachedOrDefault(zone, setpoint_type, default) ==
    IF get_setpoint_temperature(zone, setpoint_type) = << >> THEN default
    ELSE get_setpoint_temperature(zone, setpoint_type)[1]

\* What set_heat_cool and set_frost_protection send for every zone when the
\* default stands in for a missing setpoint only.
SendsCachedSetpoints ==
    /\ (ClientOpCalled("set_heat_cool") /\ cached_data # NoData) =>
         \A i \in 1..Len(ZonesOf(cached_data)) :
            LET sent == payload'[1].zones[i]
                temp == CachedOrDefault(ZonesOf(cached_data)[i], "present", 21)
            IN  /\ sent.currentManualTemperature = temp
                /\ sent.setpoints = << Setpoint("effective", temp) >>
    /\ (ClientOpCalled("set_frost_protection") /\ cached_data # NoData) =>
         \A i \in 1..Len(ZonesOf(cached_data)) :
            payload'[1].zones[i].setpoints =
               << Setpoint("effective",
                           CachedOrDefault(ZonesOf(cached_data)[i], "absent", 7)) >>

\* C26: for every zone, set_heat_cool() sends the zone's cached present
\* setpoint as the manual temperature, and 21 if and only if the zone has no
\* present setpoint; set_frost_protection() sends the zone's cached absent
\* setpoint, and 7 if and only if the zone has no absent setpoint.  A cached
\* setpoint of value 0 is a setpoint that exists.
C26_DefaultOnlyWhenMissing == [][SendsCachedSetpoints]_vars

\* The same, for the snapshots in which no cached setpoint is 0.
SendsCachedSetpointsUnlessZero ==
    [][cached_data # ZeroSetpoints => SendsCachedSetpoints]_vars

\* C27: for every clock reading in whole seconds, the expiration that
\* set_party() sends is congruent to 2220 modulo 7200 and strictly later than
\* the clock reading, and it is the same for every zone of the payload.
C27_PartyExpiration ==
    [][ClientOpCalled("set_party") =>
          /\ pc'[EntityTask] = "writing"
          /\ Len(payload'[1].zones) >= 1
          /\ \A i \in 1..Len(payload'[1].zones) :
                /\ payload'[1].zones[i].expiration % 7200 = 2220
                /\ payload'[1].zones[i].expiration > now_ts
                /\ payload'[1].zones[i].expiration = payload'[1].zones[1].expiration
      ]_vars

\* set_party for every zone, called in the minute that ends on a timestamp
\* that is 2220 modulo 7200, has posted three entries.
C27_Witness ==
    /\ command.op = "set_party"
    /\ pc[EntityTask] = "writing"
    /\ now_ts = 2219
    /\ Len(payload[1].zones) = 3
    /\ payload[1].zones[3].expiration = 2220 + 7200

\* The step in which a day edit rebuilds the week and makes its first call.
EditStarted == edit.state # "calling" /\ edit'.state = "calling"

\* The bands the canonical schedule has for day d, as the vendor JSON has
\* them; none without an entry for d or without a canonical calendar.
CanonicalBands(d) ==
    IF _get_calendar = NoCalendar THEN << >>
    ELSE LET entries == { _get_calendar.schedule[i] :
                            i \in 1..Len(_get_calendar.schedule) }
         IN  IF \E s \in entries : s.day = d
             THEN LET bands == (CHOOSE s \in entries : s.day = d).bands
                  IN  [k \in 1..Len(bands) |-> to_dict(bands[k])]
             ELSE << >>

\* C21: for every snapshot and every edit of day D with bands B, the schedule
\* sent has exactly seven entries in the order MON..SUN; the entry for D
\* carries B and every other day carries exactly the bands the canonical
\* schedule has for that day (none when it has no entry for the day or no zone
\* has a calendar).
C21_MergedWeek ==
    [][EditStarted =>
          LET sent == edit'.full_schedule IN
          /\ payload' # NoPayload =>
                payload'[1].zones[1].calendar.schedule = sent
          /\ Len(sent) = 7
          /\ \A i \in 1..7 :
                /\ sent[i].day = DAYS_OF_WEEK[i]
                /\ sent[i].bands = IF DAYS_OF_WEEK[i] = edit'.day THEN edit'.bands
                                   ELSE CanonicalBands(DAYS_OF_WEEK[i])]_vars

\* WED is being edited where zone 1 has no calendar and the canonical one, of
\* zone 2, lists TUE and MON only: the week sent has MON, TUE and the new WED.
C21_Witness ==
    /\ edit.state = "calling"
    /\ pc[EntityTask] = "writing"
    /\ edit.day = "WED"
    /\ coordinator_data = "winter"
    /\ calendars["1"] = NoCalendar
    /\ calendars["2"] # NoCalendar
    /\ Len(calendars["2"].schedule) = 2
    /\ Len(payload[1].zones[1].calendar.schedule[1].bands) = 1
    /\ Len(payload[1].zones[1].calendar.schedule[2].bands) = 2
    /\ payload[1].zones[1].calendar.schedule[3].bands = edit.bands
    /\ Len(edit.bands) = 2
    /\ payload[1].zones[1].calendar.schedule[4].bands = << >>

\* The calendar a zone has once the server has taken the schedule sent.
CalendarOfSent(step, schedule) ==
    Calendar(step,
             [i \in 1..Len(schedule) |->
                 DaySchedule(schedule[i].day,
                             [k \in 1..Len(schedule[i].bands) |->
                                 from_dict(schedule[i].bands[k])])])

ScheduleCallMade ==
    /\ edit'.state = "calling"
    /\ IF edit.state = "calling" THEN edit'.calls # edit.calls ELSE TRUE

\* Every call of the edit goes to the next zone of the snapshot and carries
\* the rebuilt week and the step of the canonical calendar, 30 without one.
CallsCarryTheWeek ==
    ScheduleCallMade =>
       LET k == Len(edit'.calls)
           zone_id == ZonesOf(coordinator_data)[k].id
       IN  /\ edit'.calls[k] = zone_id
           /\ command'.op = "set_schedule_by_zone_id"
           /\ command'.zone_id = zone_id
           /\ payload' # NoPayload =>
                 payload'[1].zones =
                    << [id |-> zone_id,
                        calendar |->
                           [step |-> IF _get_calendar = NoCalendar THEN 30
                                     ELSE _get_calendar.step,
                            schedule |-> edit'.full_schedule]] >>

\* The edit is over.
EditEnded == edit.state = "calling" /\ edit'.state # "calling"

\* C22: a day edit issues one set_schedule_by_zone_id call for every zone of
\* the snapshot, in snapshot order, each carrying the identical rebuilt week
\* and the step of the canonical source (30 when no zone has a calendar); a
\* failed write for one zone does not stop the calls for the remaining zones.
C22_FanOutToEveryZone ==
    [][/\ CallsCarryTheWeek
       /\ EditEnded => Len(edit.calls) = Len(ZonesOf(coordinator_data))]_vars

\* The same, for the edits in which no write ends in an exception.
FanOutUnlessRaised ==
    [][/\ CallsCarryTheWeek
       /\ (EditEnded /\ edit'.state # "raised") =>
             Len(edit.calls) = Len(ZonesOf(coordinator_data))]_vars

\* A write that returned false was followed by the call for the next zone.
FanOutGoesOnAfterFalse ==
    /\ edit.state = "calling"
    /\ Len(edit.calls) = 3
    /\ ~edit.any_success
    /\ pc[EntityTask] = "writing"

\* C29: every command entry point (set mode, set preset, set temperature, set
\* setpoint number, set schedule for one day) requests a refresh once its
\* client call or calls have completed, whether the write succeeded or failed.
\* Here: the day edit, when every call has returned.
C29_EditEndsWithRefresh ==
    [][(EditEnded /\ edit'.state # "raised") => edit'.refresh]_vars

\* The same, for the edits in which a write succeeded.
RefreshAfterSuccess ==
    [][(EditEnded /\ edit'.state # "raised" /\ edit.any_success) =>
          edit'.state = "refreshing"]_vars

\* The schedule the sensor shows: that of zone 1.
ShownSchedule == calendars["1"].schedule

\* The signatures of the seven days of the schedule shown.
ShownSignatures == [i \in 1..7 |-> _bands_signature(ShownSchedule[i].bands)]

\* The maximal runs of consecutive days with bands and with equal signatures,
\* as pairs of the first and the last day.
MaximalRuns(sig) ==
    { r \in (1..7) \X (1..7) :
        /\ r[1] <= r[2]
        /\ \A i \in r[1]..r[2] : sig[i] # "" /\ sig[i] = sig[r[1]]
        /\ r[1] = 1 \/ sig[r[1] - 1] # sig[r[1]]
        /\ r[2] = 7 \/ sig[r[2] + 1] # sig[r[2]] }

\* A run as the display has it: its label, a blank, and the bands by start
\* time, separated by a comma and a blank.
RunText(r) ==
    (IF r[1] = r[2] THEN DAYS_OF_WEEK[r[1]]
     ELSE DAYS_OF_WEEK[r[1]] \o "-" \o DAYS_OF_WEEK[r[2]])
    \o " " \o Join(SortedTexts(ShownSchedule[r[1]].bands), ", ")

\* C24: for every 7-day schedule, the display string lists, in MON..SUN order,
\* the maximal runs of consecutive weekdays that have non-empty and equal band
\* signatures (bands sorted by start time); a run of one day is labelled by
\* the day and a longer run by first-last day; runs are joined by ' | '; a day
\* with no bands belongs to no run and ends the current run; when no day has
\* bands the value is 'No schedule available'.
C24_DisplayListsMaximalRuns ==
    (display # NoValue /\ calendars["1"] # NoCalendar) =>
       LET sig == ShownSignatures
           runs == MaximalRuns(sig)
           first == { r[1] : r \in runs }
           in_order == [k \in 1..Cardinality(runs) |->
                          CHOOSE r \in runs :
                             Cardinality({ a \in first : a < r[1] }) = k - 1]
       IN  display = IF runs = {} THEN "No schedule available"
                     ELSE Join([k \in 1..Len(in_order) |-> RunText(in_order[k])],
                               " | ")

\* MON and TUE have the same two bands in different orders, WED has none, THU
\* to SAT have the two bands again and SUN has one.
C24_Witness ==
    /\ calendars["1"] # NoCalendar
    /\ ShownSchedule[1].bands # ShownSchedule[2].bands
    /\ display = "MON-TUE 05:00-08:00, 13:30-20:30 | "
                 \o "THU-SAT 05:00-08:00, 13:30-20:30 | SUN 07:00-22:30"

\* A get_state() call of task t returns in this step.
GetStateReturns(t) == pc[t] # "got_state" /\ pc'[t] = "got_state"

\* C35: in every reachable state of the client a set expiration implies a
\* cached snapshot; once there is a cached snapshot there is one for ever; so
\* get_state() returns None only while no fetch has ever stored a snapshot.
C35_CacheIsNeverLost ==
    [][/\ expiration # NoExpiration => cached_data # NoData
       /\ expiration' # NoExpiration => cached_data' # NoData
       /\ cached_data # NoData => cached_data' # NoData
       /\ \A t \in Tasks :
             (GetStateReturns(t) /\ ret'[t] = NoData) =>
                /\ cached_data' = NoData
                /\ expiration' = NoExpiration]_vars

\* A fetch that stored nothing has returned the snapshot of an earlier fetch,
\* after a write had cleared the expiration.
C35_Witness ==
    /\ \E t \in Tasks :
          /\ pc[t] = "got_state"
          /\ fetched[t] = "kept"
          /\ ret[t] # NoData
    /\ expiration = NoExpiration
    /\ cached_data # NoData

\* The operating modes that are not AUTO.
DirectModes == {"off", "heat", "cool"}

\* The statement without the holiday flag: outside AUTO there is no preset.
C36_PresetOnlyInAuto ==
    (NoOverridePending /\ hvac_mode \in DirectModes) => preset_mode = NoValue

\* C36: with no optimistic override pending and the operating mode OFF, HEAT
\* or COOL, the preset of a zone is null unless its holiday_active flag is set,
\* and the away preset when the flag is set; in the first integration the
\* preset is null for HEAT and COOL and the frost protection preset for OFF.
C36_PresetOutsideAuto ==
    (NoOverridePending /\ hvac_mode \in DirectModes) =>
        /\ ~zone_state.holiday_active => preset_mode = NoValue
        /\ zone_state.holiday_active => preset_mode = PRESET_AWAY
        /\ moneta_thermostat_hvac_mode \in {"heat", "cool"} =>
              moneta_thermostat_preset_mode = NoValue
        /\ moneta_thermostat_hvac_mode = "off" =>
              moneta_thermostat_preset_mode = "Protezione antigelo"
        /\ ha_state # NoState =>
              (ha_state.hvac_mode = hvac_mode =>
                  ha_state.preset_mode = preset_mode)

\* A zone that is off with the holiday flag set is written as OFF with the away
\* preset.
C36_Witness ==
    /\ NoOverridePending
    /\ zone_state.mode = "off"
    /\ zone_state.holiday_active
    /\ ha_state # NoState
    /\ ha_state.hvac_mode = "off"
    /\ ha_state.preset_mode = PRESET_AWAY

\* C37: with no optimistic override pending, the operating mode displayed for
\* a present zone, and written to the state, is one of the operating modes the
\* entity offers for the unit's category: off, heat, auto for heating; off,
\* cool, auto for cooling; off alone otherwise.
C37_ModeIsAmongValidModes ==
    NoOverridePending =>
        /\ hvac_mode \in hvac_modes
        /\ ha_state # NoState => ha_state.hvac_mode \in hvac_modes

\* With the zone's mode off the displayed mode is offered under every category.
OffIsAlwaysValid ==
    (NoOverridePending /\ zone_state.mode = "off") => hvac_mode \in hvac_modes

\* The clock reading ts rounded up to the next full minute.
NextFullMinute(ts) == ((ts \div 60) + 1) * 60

\* C31: set_party() sends, for every zone it writes and every current time, an
\* expiration 240 minutes after the current time rounded up to the next full
\* minute.
C31_PartyLastsFourHours ==
    [][ClientOpCalled("set_party") =>
          \A i \in 1..Len(payload'[1].zones) :
             payload'[1].zones[i].expiration = NextFullMinute(now_ts) + 240 * 60
      ]_vars

\* The expiration sent is at least two hours and less than four hours after
\* the next full minute.
PartyLastsTwoToFourHours ==
    [][ClientOpCalled("set_party") =>
          \A i \in 1..Len(payload'[1].zones) :
             /\ payload'[1].zones[i].expiration >= NextFullMinute(now_ts) + 7200
             /\ payload'[1].zones[i].expiration < NextFullMinute(now_ts) + 14400
      ]_vars

\* C32: for every current time, the expiration set_holiday() sends to every
\* zone is a multiple of 2,000,000 strictly greater than the current time whose
\* millions digit is 0 or 2.
C32_HolidayExpiration ==
    [][ClientOpCalled("set_holiday") =>
          \A i \in 1..Len(payload'[1].zones) :
             LET expiration_ts == payload'[1].zones[i].expiration IN
             /\ expiration_ts % 2000000 = 0
             /\ expiration_ts > now_ts
             /\ (expiration_ts \div 1000000) % 10 \in {0, 2}
      ]_vars

\* The expiration sent is a multiple of 2,000,000 after the current time, at
\* most 4,000,000 later, with an even millions digit that is never 4.
HolidayExpirationIsEven ==
    [][ClientOpCalled("set_holiday") =>
          /\ pc'[EntityTask] = "writing"
          /\ \A i \in 1..Len(payload'[1].zones) :
                LET expiration_ts == payload'[1].zones[i].expiration IN
                /\ expiration_ts % 2000000 = 0
                /\ expiration_ts > now_ts
                /\ expiration_ts <= now_ts + 4000000
                /\ (expiration_ts \div 1000000) % 10 \in {0, 2, 6, 8}
      ]_vars

\* Some per-day schedule value is a non-empty band list.
SomeDayHasBands ==
    \E i \in 1..7 : text_native_value(DAYS_OF_WEEK[i]) # << >>

\* C38: whenever some per-day schedule value is a non-empty band list, the
\* schedule display is not 'No schedule available' and is built from the
\* schedule the per-day values are read from, that of the first zone in
\* snapshot order with a non-empty calendar.
C38_DisplayAndDaysShareTheZone ==
    SomeDayHasBands =>
        /\ native_value # "No schedule available"
        /\ native_value = _build_schedule_value(_get_calendar.schedule)

\* When the first zone of the snapshot has a non-empty calendar the display is
\* built from the schedule the per-day values are read from.
FirstZoneIsCanonical ==
    (/\ coordinator_data # NoData
     /\ ZonesOf(coordinator_data) # << >>
     /\ HasCalendar(ZonesOf(coordinator_data)[1])) =>
        native_value = _build_schedule_value(_get_calendar.schedule)

\* The TTL has elapsed, or there never was one.
TTLElapsed == expiration = NoExpiration \/ now >= expiration

\* C33: the get_state() call that set the in-flight flag clears it when its
\* POST ends, whatever the answer; the flag is set exactly while a fetch is
\* outstanding; a get_state() call made after the TTL has elapsed with no fetch
\* outstanding issues a fetch; and under fairness a flag that is set is cleared
\* again.
C33_FlagIsAlwaysCleared ==
    /\ [](pending <=> \E t \in Tasks : pc[t] = "fetching")
    /\ [][\A t \in Tasks :
            /\ (pc[t] = "fetching" /\ pc'[t] # "fetching") => ~pending'
            /\ (~pending /\ TTLElapsed /\ get_state_call(t)) =>
                  (pc'[t] = "fetching" /\ pending')]_vars
    /\ pending ~> ~pending

\* After a fetch of task 2 that stored nothing, task 1 has issued a fetch.
C33_Witness ==
    /\ pc[2] = "got_state"
    /\ fetched[2] = "kept"
    /\ pc[1] = "fetching"
    /\ pending

\* Both handlers have ended and every write of both was reported as done.
BothEditsCompleted ==
    \A h \in Tasks : day_edits[h].state = "done" /\ day_edits[h].all_success

\* The bands the week `schedule` has for `day`.
BandsOn(schedule, day) ==
    schedule[CHOOSE i \in 1..7 : DAYS_OF_WEEK[i] = day].bands

\* C34: when two day edits for different days were issued against the same
\* snapshot and both have completed, the schedule every zone holds on the
\* server has the new bands of both days.
C34_NoEditIsLost ==
    (BothEditsCompleted /\ day_edits[1].day # day_edits[2].day) =>
        \A i \in 1..Len(day_edits[1].zones), h \in Tasks :
           BandsOn(server[day_edits[1].zones[i]], day_edits[h].day)
              = day_edits[h].bands

\* Every zone holds the whole week of one of the two edits, the one whose write
\* for the zone was answered last.
LastWriterWins ==
    BothEditsCompleted =>
        \A i \in 1..Len(day_edits[1].zones) :
           \E h \in Tasks :
              server[day_edits[1].zones[i]] = day_edits[h].full_schedule
====
